---------------------------- MODULE Spec2Model ----------------------------
(***************************************************************************)
(* A model of chapter01/exercises/ex3.go of rvsubbu/donovan-exercises:     *)
(* the duplicate-line detector.  DupDetectFiles dispatches to DupDetect    *)
(* (standard input only), DupDetectSorted (first file, sequential) or the  *)
(* multi-source path: one collectLines goroutine per listed file, one      *)
(* aggregator goroutine, an unbuffered channel between them, a WaitGroup   *)
(* and an unbuffered done channel.                                         *)
(*                                                                         *)
(* Every goroutine is a program counter; a step of the model is one        *)
(* statement (or one rendezvous) of the source.  The file system and the   *)
(* standard input stream are inputs chosen in Init and never written.      *)
(* Standard output is the sequence out.                                    *)
(***************************************************************************)
EXTENDS Integers, Sequences, FiniteSets, TLC

\* ------------------------------------------------------------------ bounds

\* The size of the largest call explored: a call's size is two for every
\* file listed plus one for every line the call reads.
MaxSize == 7

\* The lines of the longest source of the runs that exercise getKey.
MaxKeyLines == 3

\* The most arguments given to the joins of ex2.go.
MaxArgs == 3

\* The requests to /counter and the signals a run of the server sees.
MaxRequests == 2

MaxSignals == 2

\* --------------------------------------------------------------- the inputs

\* A line of 32 bytes, the shortest that getKey hashes.
Long32 == "aaaaaaaaaaaaaaaaaaaaaaaaaaaaaaaa"

\* The lines a source may hold: the empty line, a short line, a long line.
Lines == {"", "x", Long32}

\* The lines of the sources of the multi-source path, where a line only
\* serves as a key: two lines, one of them hashed.
KeyedLines == {"x", Long32}

\* Lines of 31 and 33 bytes, on either side of getKey's limit.
Line31 == "aaaaaaaaaaaaaaaaaaaaaaaaaaaaaaa"

Line33 == "aaaaaaaaaaaaaaaaaaaaaaaaaaaaaaaaa"

\* The lines of the runs that exercise getKey.
BoundaryLines == {"", "x", Line31, Long32, Line33}

\* Two distinct lines of 32 bytes that stand for a pair with the same
\* SHA-256 digest.  Such pairs exist (there are more lines than digests)
\* but none is known, so the pair is named and its digest is a stand-in.
TwinA == "collision-twin-A-aaaaaaaaaaaaaaa"

TwinB == "collision-twin-B-aaaaaaaaaaaaaaa"

CollidingLines == {TwinA, TwinB}

\* The names a caller may list: a file that exists, a file that does not,
\* and "stdin", collectLines' sentinel for standard input (DupDetectSorted
\* opens it as an ordinary file name).
FileNames == {"A", "M", "stdin"}

\* The thresholds a caller may pass.
Thresholds == {0, 1}

\* A file that os.Open cannot open, and a file holding the lines t.
NoFile == [exists |-> FALSE, text |-> <<>>, err |-> FALSE]

File(t) == [exists |-> TRUE, text |-> t, err |-> FALSE]

\* A file whose scan fails: input.Scan() delivers the lines t and then
\* returns false on a read error instead of at the end of the file.
FailingFile(t) == [exists |-> TRUE, text |-> t, err |-> TRUE]

\* The texts of at most n lines over the alphabet L.
Texts(L, n) == UNION {[1..k -> L] : k \in 0..n}

Range(s) == {s[k] : k \in DOMAIN s}

\* The argument lists whose files alone fit the size n: a listed file
\* weighs as much as two lines.
FileLists(n) == UNION {[1..k -> FileNames] : k \in 0..(n \div 2)}

\* ------------------------------------------------------------ pure functions

\* Mutant: the digest is a short string, one that is also a line.
hashString_Short(s) == "x"

\* fmt.Sprintf("%x", sha256.Sum256([]byte(s))): the SHA-256 digest of the
\* line's bytes in lower-case hexadecimal, tabulated for the modelled lines
\* (the digest of a line getKey never hashes is tabulated too).
hashString(s) ==
    CASE s = Line31 ->
           "61c60b487d1a921e0bcc9bf853dda0fb159b30bf57b2e2d2c753b00be15b5a09"
      [] s = Long32 ->
           "3ba3f5f43b92602683c19aee62a20342b084dd5971ddd33808d81a328879a547"
      [] s = Line33 ->
           "852785c805c77e71a22340a54e9d95933ed49121e7d2bf3c2d358854bc1359ea"
      [] s = "x" ->
           "2d711642b726b04401627ca9fbac32f5c8530fb1903cc4db02258717921a4881"
      [] s = "" ->
           "e3b0c44298fc1c149afbf4c8996fb92427ae41e4649b934ca495991b7852b855"
      [] s \in CollidingLines ->
           "cccccccccccccccccccccccccccccccccccccccccccccccccccccccccccccccc"

\* Mutant: a line of 32 bytes is still its own key.
getKey_AtMost32(s) == IF Len(s) <= 32 THEN s ELSE hashString(s)

getKey(s) == IF Len(s) < 32 THEN s ELSE hashString(s)

\* The zero value of rawLineData and the record collectLines builds.
rawLineData(text, file, num) ==
    [lineText |-> text, fileName |-> file, lineNum |-> num]

NoRecord == rawLineData("", "", 0)

\* A Go map is a function on the keys it holds; the empty map (or nil).
EmptyMap == [k \in {} |-> 0]

\* The zero value of lineData: a nil locations map and count 0.
lineData(locs, n) == [locations |-> locs, count |-> n]

ZeroLineData == lineData(EmptyMap, 0)

\* m[k] = v of Go.
MapPut(m, k, v) == [x \in (DOMAIN m) \cup {k} |-> IF x = k THEN v ELSE m[x]]

\* m[k] of Go for a map of slices: the nil slice when k is absent.
MapGetSlice(m, k) == IF k \in DOMAIN m THEN m[k] ELSE <<>>

\* ------------------------------------------------------------------ state

VARIABLES
    threshold,     \* DupDetectFiles' threshold argument
    sorted,        \* DupDetectFiles' sorted argument
    files,         \* DupDetectFiles' files argument
    disk,          \* the file system: name -> NoFile or File(text)
    stdin,         \* the lines standard input delivers
    stdinPos,      \* the lines of standard input read so far, by any scanner
    pc,            \* the calling goroutine's position
    launched,      \* the readers the launch loop has started
    wg,            \* the WaitGroup's counter
    linesClosed,   \* whether close(lines) has run
    rpc,           \* reader -> position in collectLines
    rpos,          \* reader -> lines its scanner has read from its file
    lineNum,       \* reader -> collectLines' lineNum
    cur,           \* reader -> the rawLineDatum it is sending
    fileOpen,      \* reader -> whether it holds an open file
    sent,          \* reader -> the records it has sent (history)
    aggPc,         \* the aggregator goroutine's position
    aggRec,        \* the rawLineDatum the aggregator received
    counts,        \* the occurrence map (of the path that runs)
    toVisit,       \* the keys the report's range loop has yet to visit
    i,             \* the line counter of DupDetectSorted and DupDetect
    prevInputText, \* DupDetectSorted's prevInputText
    out,           \* standard output, one item per Printf/Println
    \* chapter01/exercises/ex2.go
    strs,          \* os.Args, the argument of the three joins
    ex2Pc,         \* Ex1_2's position: the Println calls it has made
    printed,       \* what Ex1_2 has printed, one string per Println
    \* chapter01/exercises/ex4.go
    counter,       \* the package's atomic counter
    npc,           \* NewChiRouter's position
    sigPc,         \* the signal goroutine's position
    srvPc,         \* the ListenAndServe goroutine's position
    quit,          \* the quit channel's buffer (capacity 1)
    delivered,     \* the signals delivered to the process since Notify
    listenErr,     \* whether ListenAndServe failed on its own
    deadline,      \* the timeout of the context given to server.Shutdown
    expired,       \* whether that context's deadline has passed
    reqPc,         \* request -> position of its handler goroutine
    reqVal,        \* request -> the val its handler got from counter.Add
    reqBody        \* request -> the response body written to it

inputs == <<threshold, sorted, files, disk, stdin>>

mainVars == <<pc, launched, wg, linesClosed>>

readerVars == <<rpc, rpos, lineNum, cur, fileOpen, sent>>

aggVars == <<aggPc, aggRec, toVisit>>

seqVars == <<i, prevInputText>>

\* The state of Ex1_2 and of NewChiRouter, which ex3.go never touches.
joinVars == <<strs, ex2Pc, printed>>

serverVars == <<counter, npc, sigPc, srvPc, quit, delivered, listenErr,
                deadline, expired, reqPc, reqVal, reqBody>>

otherVars == <<joinVars, serverVars>>

\* The state of a call of DupDetectFiles.
dupVars == <<inputs, stdinPos, mainVars, readerVars, aggVars, counts, seqVars, out>>

vars == <<dupVars, otherVars>>

Readers == DOMAIN files

\* ------------------------------------------------------------------ output

\* fmt.Printf("Error in opening %s, discarding it\n", fileName)
OpenError(f) == [kind |-> "openError", line |-> f, count |-> 0, locs |-> EmptyMap]

\* fmt.Println("----") of the multi-source path, fmt.Println("") of the others.
Separator(s) == [kind |-> "separator", line |-> s, count |-> 0, locs |-> EmptyMap]

\* One report entry: the count, the key and what is printed of its locations.
Entry(k, n, l) == [kind |-> "entry", line |-> k, count |-> n, locs |-> l]

\* ------------------------------------------------------------------- Init

\* How many readers a list starts on a name.
Mult(fl, name) == Cardinality({r \in DOMAIN fl : fl[r] = name})

\* The lines left to a call that lists fl once its files are paid for.
Budget(fl) == MaxSize - 2 * Len(fl)

\* The files "A" may be for a call that lists fl: a reader weighs the lines
\* it scans, and one line more when its scan ends on a read error.
FilesOfA(fl) ==
    IF Mult(fl, "A") = 0 THEN {File(<<>>)}
    ELSE {File(a) : a \in Texts(KeyedLines, Budget(fl) \div Mult(fl, "A"))}
         \cup {FailingFile(a) :
                  a \in Texts(KeyedLines, (Budget(fl) \div Mult(fl, "A")) - 1)}

\* What the readers of "A" weigh.
WeightOfA(fl, f) == Mult(fl, "A") * (Len(f.text) + (IF f.err THEN 1 ELSE 0))

\* The multi-source path: "A" is read by every reader listed on it, the
\* readers listed on "stdin" share the stream, "M" cannot be opened.
InitMulti ==
    /\ sorted = FALSE
    /\ files \in FileLists(MaxSize) \ {<<>>}
    /\ \E f \in FilesOfA(files) :
          /\ disk = [n \in FileNames |-> IF n = "A" THEN f ELSE NoFile]
          /\ stdin \in (IF Mult(files, "stdin") = 0 THEN {<<>>}
                        ELSE Texts(KeyedLines,
                                   Budget(files) - WeightOfA(files, f)))

\* DupDetectSorted: only files[0] is opened, and "stdin" names a file.
InitSorted ==
    /\ sorted = TRUE
    /\ files \in FileLists(MaxSize) \ {<<>>}
    /\ \E f \in (IF files[1] = "M" THEN {NoFile}
                 ELSE IF files[1] = "A"
                 THEN {File(t) : t \in Texts(Lines, Budget(files))}
                 ELSE {NoFile} \cup {File(t) : t \in Texts(Lines, Budget(files))}) :
          disk = [n \in FileNames |->
                    IF n = files[1] THEN f
                    ELSE IF n = "A" THEN File(<<>>) ELSE NoFile]
    /\ stdin = <<>>

\* DupDetect: no file is listed and standard input is read.
InitStdin ==
    /\ sorted \in BOOLEAN
    /\ files = <<>>
    /\ disk = [n \in FileNames |-> IF n = "A" THEN File(<<>>) ELSE NoFile]
    /\ stdin \in Texts(Lines, MaxSize - 2)

\* The requests a run of the server receives.
Requests == 1..MaxRequests

\* Ex1_2 is not running.
JoinIdle ==
    /\ strs = <<>>
    /\ ex2Pc = "idle"
    /\ printed = <<>>

\* The process before NewChiRouter is called: the counter is the zero
\* atomic.Int64 of line 35, no goroutine or request exists.
ServerIdle ==
    /\ counter = 0
    /\ npc = "idle"
    /\ sigPc = "idle"
    /\ srvPc = "idle"
    /\ quit = <<>>
    /\ delivered = 0
    /\ listenErr = FALSE
    /\ deadline = 0
    /\ expired = FALSE
    /\ reqPc = [q \in Requests |-> "idle"]
    /\ reqVal = [q \in Requests |-> 0]
    /\ reqBody = [q \in Requests |-> ""]

\* The state of ex3.go's variables when DupDetectFiles is entered.
DupEntry ==
    /\ stdinPos = 0
    /\ pc = "entry"
    /\ launched = 0
    /\ wg = 0
    /\ linesClosed = FALSE
    /\ rpc = [r \in Readers |-> "idle"]
    /\ rpos = [r \in Readers |-> 0]
    /\ lineNum = [r \in Readers |-> 0]
    /\ cur = [r \in Readers |-> NoRecord]
    /\ fileOpen = [r \in Readers |-> FALSE]
    /\ sent = [r \in Readers |-> <<>>]
    /\ aggPc = "idle"
    /\ aggRec = NoRecord
    /\ counts = EmptyMap
    /\ toVisit = {}
    /\ i = 0
    /\ prevInputText = ""
    /\ out = <<>>

\* The state in which DupDetectFiles is entered, nothing else running.
InitState ==
    /\ JoinIdle
    /\ ServerIdle
    /\ DupEntry

\* DupDetectFiles is not called: a run of another program of the package.
DupIdle ==
    /\ threshold = 0
    /\ sorted = FALSE
    /\ files = <<>>
    /\ disk = [n \in FileNames |-> NoFile]
    /\ stdin = <<>>
    /\ DupEntry

Init ==
    /\ threshold \in Thresholds
    /\ InitMulti \/ InitSorted \/ InitStdin
    /\ InitState

\* The calls that take the multi-source path.
MultiInit ==
    /\ threshold \in Thresholds
    /\ InitMulti
    /\ InitState

\* The calls that exercise getKey: one source, a file or standard input,
\* holding lines on either side of getKey's limit and lines whose digests
\* collide, on the multi-source path.
KeyInit ==
    /\ threshold \in Thresholds
    /\ sorted = FALSE
    /\ files \in {<<"A">>, <<"stdin">>}
    /\ \E t \in Texts(BoundaryLines \cup CollidingLines, MaxKeyLines) :
          /\ disk = [n \in FileNames |->
                       IF n = "A" THEN File(IF files[1] = "A" THEN t ELSE <<>>)
                       ELSE NoFile]
          /\ stdin = IF files[1] = "stdin" THEN t ELSE <<>>
    /\ InitState

\* --------------------------------------------------- DupDetectFiles (caller)

\* The calls that read standard input alone: DupDetect (no file listed) and
\* the multi-source path on the one source "stdin", on the same inputs.
StdinInit ==
    /\ threshold \in Thresholds
    /\ sorted = FALSE
    /\ files \in {<<>>, <<"stdin">>}
    /\ disk = [n \in FileNames |-> NoFile]
    /\ stdin \in Texts(BoundaryLines, MaxKeyLines)
    /\ InitState

\* Mutant: DupDetect numbers the lines from 0.
DupDetectFiles_NoFiles_ZeroBased ==
    /\ pc = "entry"
    /\ Len(files) = 0
    /\ pc' = "dupScan"
    /\ counts' = EmptyMap
    /\ i' = 0
    /\ UNCHANGED <<otherVars, inputs, stdinPos, launched, wg, linesClosed,
                   readerVars, aggVars, prevInputText, out>>

\* Lines 87-91: no file is listed, DupDetect reads standard input.
DupDetectFiles_NoFiles ==
    /\ pc = "entry"
    /\ Len(files) = 0
    /\ pc' = "dupScan"
    /\ counts' = EmptyMap
    /\ i' = 1
    /\ UNCHANGED <<otherVars, inputs, stdinPos, launched, wg, linesClosed, readerVars,
                   aggVars, prevInputText, out>>

\* Lines 93-97: sorted, DupDetectSorted reads files[0].
DupDetectFiles_Sorted ==
    /\ pc = "entry"
    /\ Len(files) # 0
    /\ sorted
    /\ pc' = "sortedOpen"
    /\ UNCHANGED <<otherVars, inputs, stdinPos, launched, wg, linesClosed, readerVars,
                   aggVars, counts, seqVars, out>>

\* Lines 99-126: the channels, the map and the WaitGroup are made and the
\* aggregator goroutine is started.
DupDetectFiles_Start ==
    /\ pc = "entry"
    /\ Len(files) # 0
    /\ ~sorted
    /\ pc' = "launch"
    /\ aggPc' = "recv"
    /\ UNCHANGED <<otherVars, inputs, stdinPos, launched, wg, linesClosed, readerVars,
                   aggRec, toVisit, counts, seqVars, out>>

\* Mutant: the reader is started without wg.Add(1).
DupDetectFiles_Launch_NoAdd ==
    /\ pc = "launch"
    /\ launched < Len(files)
    /\ launched' = launched + 1
    /\ rpc' = [rpc EXCEPT ![launched + 1] = "open"]
    /\ UNCHANGED <<otherVars, inputs, stdinPos, pc, wg, linesClosed, rpos, lineNum, cur,
                   fileOpen, sent, aggVars, counts, seqVars, out>>

\* Lines 128-131, one iteration: wg.Add(1); go collectLines(f, lines, &wg).
DupDetectFiles_Launch ==
    /\ pc = "launch"
    /\ launched < Len(files)
    /\ wg' = wg + 1
    /\ launched' = launched + 1
    /\ rpc' = [rpc EXCEPT ![launched + 1] = "open"]
    /\ UNCHANGED <<otherVars, inputs, stdinPos, pc, linesClosed, rpos, lineNum, cur,
                   fileOpen, sent, aggVars, counts, seqVars, out>>

\* Line 128: the range over files is exhausted.
DupDetectFiles_LaunchEnd ==
    /\ pc = "launch"
    /\ launched = Len(files)
    /\ pc' = "wait"
    /\ UNCHANGED <<otherVars, inputs, stdinPos, launched, wg, linesClosed, readerVars,
                   aggVars, counts, seqVars, out>>

\* Mutant: Wait returns whatever the counter is (as when wg.Add is missed).
WaitReturns_Always == TRUE

\* Whether wg.Wait() may return.
WaitReturns == wg = 0

\* Line 132: wg.Wait().
DupDetectFiles_Wait ==
    /\ pc = "wait"
    /\ WaitReturns
    /\ pc' = "close"
    /\ UNCHANGED <<otherVars, inputs, stdinPos, launched, wg, linesClosed, readerVars,
                   aggVars, counts, seqVars, out>>

\* Line 133: close(lines).
DupDetectFiles_Close ==
    /\ pc = "close"
    /\ linesClosed' = TRUE
    /\ pc' = "recvDone"
    /\ UNCHANGED <<otherVars, inputs, stdinPos, launched, wg, readerVars, aggVars,
                   counts, seqVars, out>>

\* Mutant: the caller returns without receiving from done.
DupDetectFiles_Done_NoWait ==
    /\ pc = "recvDone"
    /\ pc' = "returned"
    /\ UNCHANGED <<otherVars, inputs, stdinPos, launched, wg, linesClosed, readerVars,
                   aggVars, counts, seqVars, out>>

\* Lines 125 and 134: the aggregator's done<-true meets the caller's <-done.
DupDetectFiles_Done ==
    /\ pc = "recvDone"
    /\ aggPc = "sendDone"
    /\ pc' = "returned"
    /\ aggPc' = "exit"
    /\ UNCHANGED <<otherVars, inputs, stdinPos, launched, wg, linesClosed, readerVars,
                   aggRec, toVisit, counts, seqVars, out>>

\* ----------------------------------------------------- collectLines (reader)

\* Mutant: the error of os.Open is ignored.
OpenFails_Never(f) == FALSE

\* Lines 65-76: the scanner is made; a file that cannot be opened is
\* reported and the reader returns (only wg.Done is deferred by then).
OpenFails(f) == ~disk[f].exists

\* Mutant: wg.Done is deferred only after the file is opened, so the
\* reader of a file that cannot be opened returns without it.
collectLines_Open_NoDone(r) ==
    /\ rpc[r] = "open"
    /\ IF files[r] = "stdin"
       THEN /\ rpc' = [rpc EXCEPT ![r] = "scan"]
            /\ UNCHANGED <<fileOpen, out>>
       ELSE IF OpenFails(files[r])
       THEN /\ out' = Append(out, OpenError(files[r]))
            /\ rpc' = [rpc EXCEPT ![r] = "exit"]
            /\ UNCHANGED fileOpen
       ELSE /\ fileOpen' = [fileOpen EXCEPT ![r] = TRUE]
            /\ rpc' = [rpc EXCEPT ![r] = "scan"]
            /\ UNCHANGED out
    /\ UNCHANGED <<otherVars, inputs, stdinPos, mainVars, rpos, lineNum, cur, sent,
                   aggVars, counts, seqVars>>

collectLines_Open(r) ==
    /\ rpc[r] = "open"
    /\ IF files[r] = "stdin"
       THEN /\ rpc' = [rpc EXCEPT ![r] = "scan"]
            /\ UNCHANGED <<fileOpen, out>>
       ELSE IF OpenFails(files[r])
       THEN /\ out' = Append(out, OpenError(files[r]))
            /\ rpc' = [rpc EXCEPT ![r] = "wgDone"]
            /\ UNCHANGED fileOpen
       ELSE /\ fileOpen' = [fileOpen EXCEPT ![r] = TRUE]
            /\ rpc' = [rpc EXCEPT ![r] = "scan"]
            /\ UNCHANGED out
    /\ UNCHANGED <<otherVars, inputs, stdinPos, mainVars, rpos, lineNum, cur, sent,
                   aggVars, counts, seqVars>>

\* Mutant: the record is built before lineNum is incremented.
collectLines_ScanFile_ZeroBased(r) ==
    /\ rpc[r] = "scan"
    /\ files[r] # "stdin"
    /\ IF rpos[r] < Len(disk[files[r]].text)
       THEN /\ rpos' = [rpos EXCEPT ![r] = @ + 1]
            /\ lineNum' = [lineNum EXCEPT ![r] = @ + 1]
            /\ cur' = [cur EXCEPT ![r] =
                   rawLineData(getKey(disk[files[r]].text[rpos[r] + 1]),
                               files[r], lineNum[r])]
            /\ rpc' = [rpc EXCEPT ![r] = "send"]
       ELSE /\ rpc' = [rpc EXCEPT ![r] = "close"]
            /\ UNCHANGED <<rpos, lineNum, cur>>
    /\ UNCHANGED <<otherVars, inputs, stdinPos, mainVars, fileOpen, sent, aggVars,
                   counts, seqVars, out>>

\* Mutant: a scan that ends on an error is reported like a failed open.
collectLines_ScanFile_ErrReported(r) ==
    /\ rpc[r] = "scan"
    /\ files[r] # "stdin"
    /\ IF rpos[r] < Len(disk[files[r]].text)
       THEN /\ rpos' = [rpos EXCEPT ![r] = @ + 1]
            /\ lineNum' = [lineNum EXCEPT ![r] = @ + 1]
            /\ cur' = [cur EXCEPT ![r] =
                   rawLineData(getKey(disk[files[r]].text[rpos[r] + 1]),
                               files[r], lineNum[r] + 1)]
            /\ rpc' = [rpc EXCEPT ![r] = "send"]
            /\ UNCHANGED out
       ELSE /\ rpc' = [rpc EXCEPT ![r] = "close"]
            /\ out' = IF disk[files[r]].err
                      THEN Append(out, OpenError(files[r])) ELSE out
            /\ UNCHANGED <<rpos, lineNum, cur>>
    /\ UNCHANGED <<otherVars, inputs, stdinPos, mainVars, fileOpen, sent, aggVars,
                   counts, seqVars>>

\* Lines 78-81 on a file: input.Scan() returns the next line of the reader's
\* own file, or false: at the end of the file or on the file's read error,
\* which collectLines does not tell apart (it never calls input.Err()).
collectLines_ScanFile(r) ==
    /\ rpc[r] = "scan"
    /\ files[r] # "stdin"
    /\ IF rpos[r] < Len(disk[files[r]].text)
       THEN /\ rpos' = [rpos EXCEPT ![r] = @ + 1]
            /\ lineNum' = [lineNum EXCEPT ![r] = @ + 1]
            /\ cur' = [cur EXCEPT ![r] =
                   rawLineData(getKey(disk[files[r]].text[rpos[r] + 1]),
                               files[r], lineNum[r] + 1)]
            /\ rpc' = [rpc EXCEPT ![r] = "send"]
       ELSE /\ rpc' = [rpc EXCEPT ![r] = "close"]
            /\ UNCHANGED <<rpos, lineNum, cur>>
    /\ UNCHANGED <<otherVars, inputs, stdinPos, mainVars, fileOpen, sent, aggVars,
                   counts, seqVars, out>>

\* Mutant: the readers of standard input number its lines with one counter.
collectLines_ScanStdin_SharedCount(r) ==
    /\ rpc[r] = "scan"
    /\ files[r] = "stdin"
    /\ IF stdinPos < Len(stdin)
       THEN /\ stdinPos' = stdinPos + 1
            /\ lineNum' = [lineNum EXCEPT ![r] = stdinPos + 1]
            /\ cur' = [cur EXCEPT ![r] =
                   rawLineData(getKey(stdin[stdinPos + 1]),
                               files[r], stdinPos + 1)]
            /\ rpc' = [rpc EXCEPT ![r] = "send"]
       ELSE /\ rpc' = [rpc EXCEPT ![r] = "wgDone"]
            /\ UNCHANGED <<stdinPos, lineNum, cur>>
    /\ UNCHANGED <<otherVars, inputs, mainVars, rpos, fileOpen, sent, aggVars,
                   counts, seqVars, out>>

\* Lines 78-81 on standard input: every scanner reads the one stream
\* os.Stdin, so a line goes to the scanner whose read gets it (a read
\* returns one line, as from a terminal or a line-buffered pipe).
collectLines_ScanStdin(r) ==
    /\ rpc[r] = "scan"
    /\ files[r] = "stdin"
    /\ IF stdinPos < Len(stdin)
       THEN /\ stdinPos' = stdinPos + 1
            /\ lineNum' = [lineNum EXCEPT ![r] = @ + 1]
            /\ cur' = [cur EXCEPT ![r] =
                   rawLineData(getKey(stdin[stdinPos + 1]),
                               files[r], lineNum[r] + 1)]
            /\ rpc' = [rpc EXCEPT ![r] = "send"]
       ELSE /\ rpc' = [rpc EXCEPT ![r] = "wgDone"]
            /\ UNCHANGED <<stdinPos, lineNum, cur>>
    /\ UNCHANGED <<otherVars, inputs, mainVars, rpos, fileOpen, sent, aggVars,
                   counts, seqVars, out>>

\* Mutant: the send completes whether or not the aggregator is receiving.
collectLines_Send_NoWait(r) ==
    /\ rpc[r] = "send"
    /\ aggPc \in {"recv", "update"}
    /\ ~linesClosed
    /\ aggRec' = cur[r]
    /\ aggPc' = "update"
    /\ sent' = [sent EXCEPT ![r] = Append(@, cur[r])]
    /\ cur' = [cur EXCEPT ![r] = NoRecord]
    /\ rpc' = [rpc EXCEPT ![r] = "scan"]
    /\ UNCHANGED <<otherVars, inputs, stdinPos, mainVars, rpos, lineNum, fileOpen,
                   toVisit, counts, seqVars, out>>

\* Mutant: the reader resets its key's entry in the map before sending.
collectLines_Send_Counts(r) ==
    /\ rpc[r] = "send"
    /\ aggPc = "recv"
    /\ ~linesClosed
    /\ counts' = MapPut(counts, cur[r].lineText, ZeroLineData)
    /\ aggRec' = cur[r]
    /\ aggPc' = "update"
    /\ sent' = [sent EXCEPT ![r] = Append(@, cur[r])]
    /\ cur' = [cur EXCEPT ![r] = NoRecord]
    /\ rpc' = [rpc EXCEPT ![r] = "scan"]
    /\ UNCHANGED <<otherVars, inputs, stdinPos, mainVars, rpos, lineNum, fileOpen,
                   toVisit, seqVars, out>>

\* Lines 82 and 105: the reader's send on the unbuffered channel meets the
\* aggregator's receive.
collectLines_Send(r) ==
    /\ rpc[r] = "send"
    /\ aggPc = "recv"
    /\ ~linesClosed
    /\ aggRec' = cur[r]
    /\ aggPc' = "update"
    /\ sent' = [sent EXCEPT ![r] = Append(@, cur[r])]
    /\ cur' = [cur EXCEPT ![r] = NoRecord]
    /\ rpc' = [rpc EXCEPT ![r] = "scan"]
    /\ UNCHANGED <<otherVars, inputs, stdinPos, mainVars, rpos, lineNum, fileOpen,
                   toVisit, counts, seqVars, out>>

\* Mutant: a reader whose scan ended on an error returns without wg.Done.
collectLines_Close_ErrNoDone(r) ==
    /\ rpc[r] = "close"
    /\ fileOpen' = [fileOpen EXCEPT ![r] = FALSE]
    /\ rpc' = [rpc EXCEPT ![r] =
                  IF disk[files[r]].err THEN "exit" ELSE "wgDone"]
    /\ UNCHANGED <<otherVars, inputs, stdinPos, mainVars, rpos, lineNum, cur, sent,
                   aggVars, counts, seqVars, out>>

\* Mutant: the deferred file.Close() is missing.
collectLines_Close_Leak(r) ==
    /\ rpc[r] = "close"
    /\ rpc' = [rpc EXCEPT ![r] = "wgDone"]
    /\ UNCHANGED <<otherVars, inputs, stdinPos, mainVars, rpos, lineNum, cur, fileOpen,
                   sent, aggVars, counts, seqVars, out>>

\* Line 74, deferred: file.Close().
collectLines_Close(r) ==
    /\ rpc[r] = "close"
    /\ fileOpen' = [fileOpen EXCEPT ![r] = FALSE]
    /\ rpc' = [rpc EXCEPT ![r] = "wgDone"]
    /\ UNCHANGED <<otherVars, inputs, stdinPos, mainVars, rpos, lineNum, cur, sent,
                   aggVars, counts, seqVars, out>>

\* Line 63, deferred: wg.Done().
collectLines_Done(r) ==
    /\ rpc[r] = "wgDone"
    /\ wg' = wg - 1
    /\ rpc' = [rpc EXCEPT ![r] = "exit"]
    /\ UNCHANGED <<otherVars, inputs, stdinPos, pc, launched, linesClosed, rpos,
                   lineNum, cur, fileOpen, sent, aggVars, counts, seqVars, out>>

\* ------------------------------------------------------------ the aggregator

\* Mutant: a later sighting replaces the source's list instead of
\* appending to it.
Aggregate_Overwrite(m, rec) ==
    LET ok == rec.lineText \in DOMAIN m
        lineDatum == IF ok THEN m[rec.lineText] ELSE ZeroLineData
        locations ==
            IF ~ok THEN MapPut(EmptyMap, rec.fileName, <<rec.lineNum>>)
            ELSE MapPut(lineDatum.locations, rec.fileName, <<rec.lineNum>>)
    IN  MapPut(m, rec.lineText, lineData(locations, lineDatum.count + 1))

\* Mutant: a later sighting is put in front of the source's list.
Aggregate_Prepend(m, rec) ==
    LET ok == rec.lineText \in DOMAIN m
        lineDatum == IF ok THEN m[rec.lineText] ELSE ZeroLineData
        locations ==
            IF ~ok THEN MapPut(EmptyMap, rec.fileName, <<rec.lineNum>>)
            ELSE MapPut(lineDatum.locations, rec.fileName,
                        <<rec.lineNum>> \o
                            MapGetSlice(lineDatum.locations, rec.fileName))
    IN  MapPut(m, rec.lineText, lineData(locations, lineDatum.count + 1))

\* Mutant: the entry is stored in a map made anew for every record, so the
\* entries of the other keys are dropped.
Aggregate_Fresh(m, rec) ==
    LET ok == rec.lineText \in DOMAIN m
        lineDatum == IF ok THEN m[rec.lineText] ELSE ZeroLineData
        locations ==
            IF ~ok THEN MapPut(EmptyMap, rec.fileName, <<rec.lineNum>>)
            ELSE MapPut(lineDatum.locations, rec.fileName,
                        Append(MapGetSlice(lineDatum.locations, rec.fileName),
                               rec.lineNum))
    IN  MapPut(EmptyMap, rec.lineText, lineData(locations, lineDatum.count + 1))

\* Mutant: a new entry gets a list, an empty one, for every other source
\* listed.
Aggregate_Eager(m, rec) ==
    LET ok == rec.lineText \in DOMAIN m
        lineDatum == IF ok THEN m[rec.lineText] ELSE ZeroLineData
        locations ==
            IF ~ok THEN [S \in Range(files) \cup {rec.fileName} |->
                           IF S = rec.fileName THEN <<rec.lineNum>> ELSE <<>>]
            ELSE MapPut(lineDatum.locations, rec.fileName,
                        Append(MapGetSlice(lineDatum.locations, rec.fileName),
                               rec.lineNum))
    IN  MapPut(m, rec.lineText, lineData(locations, lineDatum.count + 1))

\* Lines 106-114: the entry of the received record's key after the record
\* is counted.
Aggregate(m, rec) ==
    LET ok == rec.lineText \in DOMAIN m
        lineDatum == IF ok THEN m[rec.lineText] ELSE ZeroLineData
        locations ==
            IF ~ok THEN MapPut(EmptyMap, rec.fileName, <<rec.lineNum>>)
            ELSE MapPut(lineDatum.locations, rec.fileName,
                        Append(MapGetSlice(lineDatum.locations, rec.fileName),
                               rec.lineNum))
    IN  MapPut(m, rec.lineText, lineData(locations, lineDatum.count + 1))

\* Mutant: a record whose key the map already holds is dropped.
aggregator_Update_SkipSeen ==
    /\ aggPc = "update"
    /\ counts' = IF aggRec.lineText \in DOMAIN counts THEN counts
                 ELSE Aggregate(counts, aggRec)
    /\ aggRec' = NoRecord
    /\ aggPc' = "recv"
    /\ UNCHANGED <<otherVars, inputs, stdinPos, mainVars, readerVars, toVisit, seqVars, out>>

aggregator_Update ==
    /\ aggPc = "update"
    /\ counts' = Aggregate(counts, aggRec)
    /\ aggRec' = NoRecord
    /\ aggPc' = "recv"
    /\ UNCHANGED <<otherVars, inputs, stdinPos, mainVars, readerVars, toVisit, seqVars, out>>

\* Mutant: the loop over the channel ends when no record is at hand.
RangeEnds_Early == TRUE

\* Whether the range over the lines channel ends.
RangeEnds == linesClosed

\* Lines 105 and 116: the channel is closed and empty, the range loop ends
\* and the separator is printed; the range over counts begins.
aggregator_Drained ==
    /\ aggPc = "recv"
    /\ RangeEnds
    /\ out' = Append(out, Separator("----"))
    /\ toVisit' = DOMAIN counts
    /\ aggPc' = "print"
    /\ UNCHANGED <<otherVars, inputs, stdinPos, mainVars, readerVars, aggRec, counts, seqVars>>

\* Mutant: the comparison with the threshold is not strict.
Reported_AtLeast(lineDatum) == lineDatum.count >= threshold

\* Line 118.
Reported(lineDatum) == lineDatum.count > threshold

\* Mutant: the Printf of the per-source lists is missing.
aggregator_Print_NoLists ==
    /\ aggPc = "print"
    /\ \E line \in toVisit :
         /\ toVisit' = toVisit \ {line}
         /\ out' = IF Reported(counts[line])
                   THEN Append(out, Entry(line, counts[line].count, EmptyMap))
                   ELSE out
    /\ UNCHANGED <<otherVars, inputs, stdinPos, mainVars, readerVars, aggPc, aggRec,
                   counts, seqVars>>

\* Lines 117-124, one iteration, the keys in any order.
aggregator_Print ==
    /\ aggPc = "print"
    /\ \E line \in toVisit :
         /\ toVisit' = toVisit \ {line}
         /\ out' = IF Reported(counts[line])
                   THEN Append(out, Entry(line, counts[line].count,
                                          counts[line].locations))
                   ELSE out
    /\ UNCHANGED <<otherVars, inputs, stdinPos, mainVars, readerVars, aggPc, aggRec,
                   counts, seqVars>>

\* Line 117: the range over counts is exhausted.
aggregator_PrintEnd ==
    /\ aggPc = "print"
    /\ toVisit = {}
    /\ aggPc' = "sendDone"
    /\ UNCHANGED <<otherVars, inputs, stdinPos, mainVars, readerVars, aggRec, toVisit,
                   counts, seqVars, out>>

\* ---------------------------------------------------------- DupDetectSorted

\* Mutant: DupDetectSorted is given the last file listed.
SortedFile_Last == files[Len(files)]

\* The file DupDetectSorted reads.
SortedFile == files[1]

\* Mutant: the return after the error message is missing.
DupDetectSorted_Open_NoReturn ==
    /\ pc = "sortedOpen"
    /\ out' = IF OpenFails(SortedFile)
              THEN Append(out, OpenError(SortedFile)) ELSE out
    /\ counts' = EmptyMap
    /\ i' = 1
    /\ prevInputText' = ""
    /\ pc' = "sortedScan"
    /\ UNCHANGED <<otherVars, inputs, stdinPos, launched, wg, linesClosed, readerVars, aggVars>>

\* Lines 140-150: the file is opened; a file that cannot be opened is
\* reported and the function returns.
DupDetectSorted_Open ==
    /\ pc = "sortedOpen"
    /\ IF OpenFails(SortedFile)
       THEN /\ out' = Append(out, OpenError(SortedFile))
            /\ pc' = "returned"
            /\ UNCHANGED <<counts, seqVars>>
       ELSE /\ counts' = EmptyMap
            /\ i' = 1
            /\ prevInputText' = ""
            /\ pc' = "sortedScan"
            /\ UNCHANGED out
    /\ UNCHANGED <<otherVars, inputs, stdinPos, launched, wg, linesClosed, readerVars, aggVars>>

\* Mutant: prevLineDatum is a copy of the entry as it was first stored,
\* its count 1.
FinalizePrev_Stale(m, prev, fileName, n) ==
    IF prev # ""
    THEN LET prevLineDatum == m[prev]
         IN  MapPut(m, prev,
                    lineData(MapPut(prevLineDatum.locations, fileName,
                                    Append(MapGetSlice(prevLineDatum.locations,
                                                       fileName), n - 1)),
                             1))
    ELSE m

\* Lines 158-161: the previous run's entry gets its end boundary, unless
\* prevInputText is empty.  prevLineDatum is declared nowhere in the file;
\* it is read as the entry stored for prevInputText.
FinalizePrev(m, prev, fileName, n) ==
    IF prev # ""
    THEN LET prevLineDatum == m[prev]
         IN  MapPut(m, prev,
                    lineData(MapPut(prevLineDatum.locations, fileName,
                                    Append(MapGetSlice(prevLineDatum.locations,
                                                       fileName), n - 1)),
                             prevLineDatum.count))
    ELSE m

\* Mutant: the previous entry is finalized whenever the line differs from
\* prevInputText, new to the map or not.
SortedStep_AlwaysFinalize(m, prev, fileName, inputText, n) ==
    LET ok == inputText \in DOMAIN m
        lineDatum == IF ok THEN m[inputText] ELSE ZeroLineData
        locations == IF ok THEN lineDatum.locations
                     ELSE MapPut(EmptyMap, fileName, <<n>>)
        m1 == IF inputText = prev THEN m
              ELSE FinalizePrev(m, prev, fileName, n)
    IN  MapPut(m1, inputText, lineData(locations, lineDatum.count + 1))

\* Lines 153-166: the map after line number n, inputText, is counted.
SortedStep(m, prev, fileName, inputText, n) ==
    LET ok == inputText \in DOMAIN m
        lineDatum == IF ok THEN m[inputText] ELSE ZeroLineData
        locations == IF ok THEN lineDatum.locations
                     ELSE MapPut(EmptyMap, fileName, <<n>>)
        m1 == IF ok THEN m ELSE FinalizePrev(m, prev, fileName, n)
    IN  MapPut(m1, inputText, lineData(locations, lineDatum.count + 1))

\* Lines 152-168, one iteration of the scan loop, or its end and the
\* Println before the report.
DupDetectSorted_Scan ==
    /\ pc = "sortedScan"
    /\ IF i <= Len(disk[SortedFile].text)
       THEN LET inputText == disk[SortedFile].text[i]
            IN  /\ counts' = SortedStep(counts, prevInputText, SortedFile,
                                        inputText, i)
                /\ prevInputText' = IF inputText \in DOMAIN counts
                                    THEN prevInputText ELSE inputText
                /\ i' = i + 1
                /\ UNCHANGED <<pc, toVisit, out>>
       ELSE /\ out' = Append(out, Separator(""))
            /\ toVisit' = DOMAIN counts
            /\ pc' = "sortedPrint"
            /\ UNCHANGED <<counts, seqVars>>
    /\ UNCHANGED <<otherVars, inputs, stdinPos, launched, wg, linesClosed, readerVars,
                   aggPc, aggRec>>

\* Lines 169-173, one iteration, the keys in any order: an entry over the
\* threshold is printed with locations[fileName][0] and [1]; the index
\* expression panics when the list holds one element.
DupDetectSorted_Print ==
    /\ pc = "sortedPrint"
    /\ \E line \in toVisit :
         LET lineDatum == counts[line]
             locs == lineDatum.locations[SortedFile]
         IN  /\ toVisit' = toVisit \ {line}
             /\ IF ~Reported(lineDatum)
                THEN UNCHANGED <<pc, out>>
                ELSE IF Len(locs) < 2
                THEN /\ pc' = "panic"
                     /\ UNCHANGED out
                ELSE /\ out' = Append(out, Entry(line, lineDatum.count,
                                                 <<locs[1], locs[2]>>))
                     /\ UNCHANGED pc
    /\ UNCHANGED <<otherVars, inputs, stdinPos, launched, wg, linesClosed, readerVars,
                   aggPc, aggRec, counts, seqVars>>

\* Line 169: the range over counts is exhausted, the function returns.
DupDetectSorted_Return ==
    /\ pc = "sortedPrint"
    /\ toVisit = {}
    /\ pc' = "returned"
    /\ UNCHANGED <<otherVars, inputs, stdinPos, launched, wg, linesClosed, readerVars,
                   aggVars, counts, seqVars, out>>

\* ---------------------------------------------------------------- DupDetect

\* Lines 183-191: the map after line number n of standard input is counted.
DupDetectStep(m, inputText, n) ==
    LET ok == inputText \in DOMAIN m
        lineDatum == IF ok THEN m[inputText] ELSE ZeroLineData
        locations ==
            IF ~ok THEN MapPut(EmptyMap, "stdin", <<n>>)
            ELSE MapPut(lineDatum.locations, "stdin",
                        Append(MapGetSlice(lineDatum.locations, "stdin"), n))
    IN  MapPut(m, inputText, lineData(locations, lineDatum.count + 1))

\* Lines 181-194, one iteration of the scan loop, or its end and the
\* Println before the report.
DupDetect_Scan ==
    /\ pc = "dupScan"
    /\ IF stdinPos < Len(stdin)
       THEN /\ counts' = DupDetectStep(counts, stdin[stdinPos + 1], i)
            /\ stdinPos' = stdinPos + 1
            /\ i' = i + 1
            /\ UNCHANGED <<pc, toVisit, out>>
       ELSE /\ out' = Append(out, Separator(""))
            /\ toVisit' = DOMAIN counts
            /\ pc' = "dupPrint"
            /\ UNCHANGED <<counts, stdinPos, i>>
    /\ UNCHANGED <<otherVars, inputs, launched, wg, linesClosed, readerVars, aggPc,
                   aggRec, prevInputText>>

\* Lines 195-199, one iteration, the keys in any order.
DupDetect_Print ==
    /\ pc = "dupPrint"
    /\ \E line \in toVisit :
         /\ toVisit' = toVisit \ {line}
         /\ out' = IF Reported(counts[line])
                   THEN Append(out, Entry(line, counts[line].count,
                                          counts[line].locations["stdin"]))
                   ELSE out
    /\ UNCHANGED <<otherVars, inputs, stdinPos, mainVars, readerVars, aggPc, aggRec,
                   counts, seqVars>>

\* Line 195: the range over counts is exhausted, the function returns.
DupDetect_Return ==
    /\ pc = "dupPrint"
    /\ toVisit = {}
    /\ pc' = "returned"
    /\ UNCHANGED <<otherVars, inputs, stdinPos, launched, wg, linesClosed, readerVars,
                   aggVars, counts, seqVars, out>>

\* ------------------------------------------------------------------- Next

\* The steps of the multi-source path.
MultiNext ==
    \/ DupDetectFiles_Start
    \/ DupDetectFiles_Launch
    \/ DupDetectFiles_LaunchEnd
    \/ DupDetectFiles_Wait
    \/ DupDetectFiles_Close
    \/ DupDetectFiles_Done
    \/ \E r \in Readers : collectLines_Open(r)
    \/ \E r \in Readers : collectLines_ScanFile(r)
    \/ \E r \in Readers : collectLines_ScanStdin(r)
    \/ \E r \in Readers : collectLines_Send(r)
    \/ \E r \in Readers : collectLines_Close(r)
    \/ \E r \in Readers : collectLines_Done(r)
    \/ aggregator_Update
    \/ aggregator_Drained
    \/ aggregator_Print
    \/ aggregator_PrintEnd

\* The steps of the sequential paths.
SeqNext ==
    \/ DupDetectFiles_NoFiles
    \/ DupDetectFiles_Sorted
    \/ DupDetectSorted_Open
    \/ DupDetectSorted_Scan
    \/ DupDetectSorted_Print
    \/ DupDetectSorted_Return
    \/ DupDetect_Scan
    \/ DupDetect_Print
    \/ DupDetect_Return

Next == MultiNext \/ SeqNext

Spec == Init /\ [][Next]_vars

\* The multi-source path under fair scheduling: the Go scheduler runs every
\* goroutine that can take a step, so a step stays possible only so long.
MultiFairSpec == MultiInit /\ [][MultiNext]_vars /\ WF_vars(MultiNext)

\* The multi-source path on the calls that exercise getKey.
KeySpec == KeyInit /\ [][MultiNext]_vars

\* The steps of the calls that read standard input alone.
StdinNext ==
    \/ DupDetectFiles_NoFiles
    \/ DupDetect_Scan
    \/ DupDetect_Print
    \/ DupDetect_Return
    \/ DupDetectFiles_Start
    \/ DupDetectFiles_Launch
    \/ DupDetectFiles_LaunchEnd
    \/ DupDetectFiles_Wait
    \/ DupDetectFiles_Close
    \/ DupDetectFiles_Done
    \/ \E r \in Readers : collectLines_Open(r)
    \/ \E r \in Readers : collectLines_ScanStdin(r)
    \/ \E r \in Readers : collectLines_Send(r)
    \/ \E r \in Readers : collectLines_Done(r)
    \/ aggregator_Update
    \/ aggregator_Drained
    \/ aggregator_Print
    \/ aggregator_PrintEnd

StdinSpec == StdinInit /\ [][StdinNext]_vars

\* ------------------------------------------------- what the inputs determine

\* The multi-source path runs (the aggregator is started only there), and
\* its range over the lines channel has ended: the report is being or has
\* been printed.
ReportPhase == aggPc \in {"print", "sendDone", "exit"}

ReportDone == aggPc \in {"sendDone", "exit"}

\* The lines a reader listed on the name S scans.
SourceText(S) == IF S = "stdin" THEN stdin ELSE disk[S].text

\* The line numbers at which a line with key k occurs in S.
Positions(S, k) ==
    {p \in DOMAIN SourceText(S) : getKey(SourceText(S)[p]) = k}

\* The keys of the lines a source of the multi-source path may hold.
AllKeys == {getKey(l) : l \in KeyedLines}

\* A listed source that cannot be opened.
Missing(S) == S # "stdin" /\ ~disk[S].exists

\* The argument list without the sources that cannot be opened.
Present(fl) == SelectSeq(fl, LAMBDA S : ~Missing(S))

\* How often the readers started for the list fl read line p of S: standard
\* input is one stream however often it is listed.
Reads(fl, S) == IF S = "stdin" THEN 1 ELSE Mult(fl, S)

RECURSIVE SumOver(_, _)
SumOver(S, f) ==
    IF S = {} THEN 0
    ELSE LET x == CHOOSE y \in S : TRUE IN f[x] + SumOver(S \ {x}, f)

\* The occurrences of key k the readers started for fl emit.
ExpectedCount(fl, k) ==
    SumOver(Range(fl),
            [S \in Range(fl) |-> Reads(fl, S) * Cardinality(Positions(S, k))])

\* The records sent so far, as (reader, index) pairs, and those with key k.
SentIndex == UNION {{<<r, p>> : p \in DOMAIN sent[r]} : r \in Readers}

SentWith(k) ==
    Cardinality({rp \in SentIndex : sent[rp[1]][rp[2]].lineText = k})

KeysSent == {sent[rp[1]][rp[2]].lineText : rp \in SentIndex}

\* The line numbers an entry holds, over all its per-source lists.
LocTotal(lineDatum) ==
    SumOver(DOMAIN lineDatum.locations,
            [f \in DOMAIN lineDatum.locations |-> Len(lineDatum.locations[f])])

\* How often p occurs in a list.
Occurs(list, p) == Cardinality({j \in DOMAIN list : list[j] = p})

StrictlyIncreasing(list) ==
    \A a, b \in DOMAIN list : a < b => list[a] < list[b]

\* The list the map holds for key k and source S (empty when it holds none).
ListOf(k, S) ==
    IF k \in DOMAIN counts THEN MapGetSlice(counts[k].locations, S) ELSE <<>>

\* The report entries printed so far.
EntryIndex == {n \in DOMAIN out : out[n].kind = "entry"}

Entries == {out[n] : n \in EntryIndex}

\* The open-failure messages printed so far for the name S.
OpenErrors(S) == Cardinality({n \in DOMAIN out : out[n] = OpenError(S)})

\* ------------------------------------------------------------------ claims

\* C1: in the multi-source path, when the report is produced, every key a
\* reader emitted has an entry, each entry's count is the number of records
\* the readers emitted with that key, and the line numbers over the entry's
\* per-source lists number as many: no record is lost or counted twice.
C1_CountsMatchEmitted ==
    ReportPhase =>
        /\ DOMAIN counts = KeysSent
        /\ \A k \in DOMAIN counts :
              /\ counts[k].count = SentWith(k)
              /\ LocTotal(counts[k]) = counts[k].count

\* A finished run in which one key was emitted by two readers.
C1_Witness ==
    /\ pc = "returned"
    /\ aggPc = "exit"
    /\ \E k \in DOMAIN counts : \E r1, r2 \in Readers :
          /\ r1 # r2
          /\ \E p \in DOMAIN sent[r1] : sent[r1][p].lineText = k
          /\ \E p \in DOMAIN sent[r2] : sent[r2][p].lineText = k
          /\ counts[k].count >= 3

\* The runs of DupDetectSorted's file: the line numbers at which a run of
\* identical lines starts, and the last line number of the run from s.
SortedText == disk[SortedFile].text

RunStarts ==
    {p \in DOMAIN SortedText : p = 1 \/ SortedText[p - 1] # SortedText[p]}

RunEnd(s) ==
    CHOOSE e \in s..Len(SortedText) :
        /\ \A q \in s..e : SortedText[q] = SortedText[s]
        /\ e = Len(SortedText) \/ SortedText[e + 1] # SortedText[s]

\* All occurrences of an identical line are contiguous.
Contiguous ==
    \A s1, s2 \in RunStarts : s1 # s2 => SortedText[s1] # SortedText[s2]

\* C2 (the claim as stated): for a source whose identical lines are
\* contiguous, DupDetectSorted ends by returning and has reported exactly
\* the lines whose run is longer than the threshold, each once, with the
\* run's length, first line number and last line number.
C2_SortedReportsRuns ==
    (sorted /\ Len(files) > 0 /\ disk[SortedFile].exists /\ Contiguous
        /\ pc \in {"returned", "panic"}) =>
        /\ pc = "returned"
        /\ Entries = {Entry(SortedText[s], RunEnd(s) - s + 1, <<s, RunEnd(s)>>) :
                        s \in {t \in RunStarts : RunEnd(t) - t + 1 > threshold}}
        /\ Cardinality(EntryIndex) = Cardinality(Entries)

\* C3: in the multi-source path a reader whose file cannot be opened prints
\* one message, opens nothing, emits no record and goes on to signal
\* completion; and when the report is produced the counts and the
\* line-number lists are those of the argument list without the sources
\* that cannot be opened (those of standard input when it is listed once:
\* readers that share it divide its lines between them).
C3_MissingFileSkipped ==
    /\ \A r \in Readers :
          (~sorted /\ Missing(files[r])) =>
              /\ rpc[r] \in {"idle", "open", "wgDone", "exit"}
              /\ sent[r] = <<>>
              /\ cur[r] = NoRecord
              /\ ~fileOpen[r]
    /\ \A S \in FileNames :
          (~sorted /\ Missing(S)) =>
              OpenErrors(S) = Cardinality({r \in Readers :
                                  files[r] = S /\ rpc[r] \in {"wgDone", "exit"}})
    /\ (ReportPhase /\ \E r \in Readers : Missing(files[r])) =>
          \A k \in AllKeys \cup DOMAIN counts :
              /\ \A S \in FileNames \ {"stdin"} : \A p \in 1..MaxSize :
                    Occurs(ListOf(k, S), p) =
                        (IF p \in Positions(S, k)
                         THEN Mult(Present(files), S) ELSE 0)
              /\ Mult(files, "stdin") <= 1 =>
                    /\ ExpectedCount(Present(files), k) =
                          (IF k \in DOMAIN counts THEN counts[k].count ELSE 0)
                    /\ Range(ListOf(k, "stdin")) =
                          (IF "stdin" \in Range(Present(files))
                           THEN Positions("stdin", k) ELSE {})
                    /\ StrictlyIncreasing(ListOf(k, "stdin"))

\* A finished run that listed a file that cannot be opened and a source
\* with lines.
C3_Witness ==
    /\ pc = "returned"
    /\ aggPc = "exit"
    /\ \E r1, r2 \in Readers :
          /\ Missing(files[r1])
          /\ Len(sent[r2]) >= 2
    /\ Cardinality(Entries) >= 1

\* C4: no report line is printed before every reader has signalled
\* completion and the lines channel is closed and drained: by then every
\* reader has scanned its source to the end, sent a record for every line
\* it scanned, and every record sent is counted in the map.
C4_ReportAfterAllInput ==
    (~sorted /\ Len(files) > 0
        /\ (ReportPhase \/ \E n \in DOMAIN out : out[n].kind # "openError")) =>
        /\ linesClosed
        /\ wg = 0
        /\ \A r \in Readers : rpc[r] = "exit"
        /\ aggRec = NoRecord
        /\ \A r \in Readers :
              /\ cur[r] = NoRecord
              /\ Len(sent[r]) = lineNum[r]
              /\ files[r] # "stdin" => rpos[r] = Len(disk[files[r]].text)
              /\ files[r] = "stdin" => stdinPos = Len(stdin)
        /\ SumOver(DOMAIN counts, [k \in DOMAIN counts |-> counts[k].count]) =
              SumOver(Readers, [r \in Readers |-> lineNum[r]])

\* The first report entry has just been printed, two readers having sent.
C4_Witness ==
    /\ aggPc = "print"
    /\ Cardinality(EntryIndex) = 1
    /\ \E r1, r2 \in Readers : r1 # r2 /\ sent[r1] # <<>> /\ sent[r2] # <<>>

\* C5: under fair scheduling every call that takes the multi-source path
\* returns, with every goroutine it started finished.
C5_MultiSourceReturns ==
    (~sorted /\ Len(files) > 0) =>
        <>(pc = "returned" /\ aggPc = "exit" /\ \A r \in Readers : rpc[r] = "exit")

\* A call returned although a listed file could not be opened, a listed
\* source was empty and another had lines.
C5_Witness ==
    /\ ~sorted
    /\ pc = "returned"
    /\ \E r \in Readers : Missing(files[r])
    /\ \E r \in Readers : ~Missing(files[r]) /\ sent[r] # <<>>

\* C6: once the multi-source report is printed it holds an entry for a key
\* exactly when the key's count is strictly greater than the threshold,
\* and no key twice; while it is printed, a key already visited has an
\* entry exactly when its count is over the threshold.
C6_ReportedIffOverThreshold ==
    ReportPhase =>
        /\ Entries = {Entry(k, counts[k].count, counts[k].locations) :
                        k \in {x \in (DOMAIN counts) \ toVisit :
                                 counts[x].count > threshold}}
        /\ Cardinality(EntryIndex) = Cardinality(Entries)
        /\ ReportDone => toVisit = {}

\* A finished report with a key at the threshold and a key over it.
C6_Witness ==
    /\ aggPc = "exit"
    /\ \E k1, k2 \in DOMAIN counts :
          /\ counts[k1].count = threshold
          /\ counts[k2].count > threshold
    /\ Cardinality(Entries) = 1

\* C7 (the claim as stated): when the report is produced, the list an entry
\* holds for a source S holds exactly the line numbers at which a line with
\* that key occurs in S, for every source that was read.
C7_ListsAreSourcePositions ==
    ReportPhase =>
        \A k \in AllKeys : \A S \in Range(files) :
            Range(ListOf(k, S)) = Positions(S, k)

\* C7 (amended): when standard input is listed at most once, the list an
\* entry holds for a source S holds exactly the line numbers at which a
\* line with that key occurs in S, each as often as S is listed.
C7_ListsAreSourcePositionsOnce ==
    (ReportPhase /\ Mult(files, "stdin") <= 1) =>
        \A k \in AllKeys : \A S \in Range(files) :
            /\ Range(ListOf(k, S)) = Positions(S, k)
            /\ \A p \in Positions(S, k) : Occurs(ListOf(k, S), p) = Mult(files, S)

\* A finished run with a key on lines 1 and 2 of "A" and line 1 of
\* standard input.
C7_Witness ==
    /\ aggPc = "exit"
    /\ Mult(files, "stdin") = 1
    /\ \E k \in DOMAIN counts :
          /\ counts[k].count = 3
          /\ MapGetSlice(counts[k].locations, "A") = <<1, 2>>
          /\ MapGetSlice(counts[k].locations, "stdin") = <<1>>

\* C8 (the claim as stated): for every list of sources, in every entry the
\* line numbers stored for a source are strictly increasing.
C8_ListsIncrease ==
    \A k \in DOMAIN counts : \A S \in DOMAIN counts[k].locations :
        (~sorted /\ Len(files) > 0) => StrictlyIncreasing(counts[k].locations[S])

\* No source is listed twice.
DistinctSources == \A r1, r2 \in Readers : r1 # r2 => files[r1] # files[r2]

\* C8 (amended): when no source is listed twice, the records of a source
\* reach the aggregator in scan order: a reader's records carry the line
\* numbers 1, 2, ... in the order sent, and in every entry the line numbers
\* stored for a source are strictly increasing.
C8_ListsIncreaseDistinct ==
    (~sorted /\ Len(files) > 0 /\ DistinctSources) =>
        /\ \A r \in Readers : \A p \in DOMAIN sent[r] : sent[r][p].lineNum = p
        /\ \A k \in DOMAIN counts : \A S \in DOMAIN counts[k].locations :
              StrictlyIncreasing(counts[k].locations[S])

\* Two sources, and an entry with two line numbers of one of them.
C8_Witness ==
    /\ DistinctSources
    /\ Len(files) = 2
    /\ \E k \in DOMAIN counts : \E S \in DOMAIN counts[k].locations :
          /\ Len(counts[k].locations[S]) >= 2
          /\ Cardinality(DOMAIN counts[k].locations) = 2

\* What a report entry says, the order of a list aside.
AsSets(e) == [line |-> e.line, count |-> e.count,
              locs |-> [S \in DOMAIN e.locs |-> Range(e.locs[S])]]

\* The report the inputs determine: a key over the threshold with its
\* count and, for each source holding it, its line numbers there.
ExpectedReport ==
    {[line |-> k, count |-> ExpectedCount(files, k),
      locs |-> [S \in {T \in Range(files) : Positions(T, k) # {}} |->
                  Positions(S, k)]] :
        k \in {x \in AllKeys : ExpectedCount(files, x) > threshold}}

\* C9 (the claim as stated): the finished report is the same under every
\* interleaving: the reported keys, their counts and their per-source sets
\* of line numbers are the ones the source contents and the threshold
\* determine.
C9_ReportDetermined ==
    ReportDone => {AsSets(e) : e \in Entries} = ExpectedReport

\* C9 (amended): the same, when standard input is listed at most once.
C9_ReportDeterminedOnce ==
    (ReportDone /\ Mult(files, "stdin") <= 1) =>
        {AsSets(e) : e \in Entries} = ExpectedReport

\* A finished report of two readers with an entry holding line numbers of
\* both.
C9_Witness ==
    /\ aggPc = "exit"
    /\ Mult(files, "stdin") <= 1
    /\ Len(files) = 2
    /\ \E e \in Entries : Cardinality(DOMAIN e.locs) = 2 /\ e.count = 3

\* C10: when DupDetectSorted cannot open its file it prints one error
\* message and returns: no line is read, no entry is made or reported.
C10_SortedOpenFailure ==
    (sorted /\ Len(files) > 0 /\ ~disk[SortedFile].exists
        /\ pc \notin {"entry", "sortedOpen"}) =>
        /\ pc = "returned"
        /\ out = <<OpenError(SortedFile)>>
        /\ counts = EmptyMap
        /\ toVisit = {}
        /\ i = 0

\* DupDetectSorted has returned from a file that cannot be opened.
C10_Witness ==
    /\ sorted
    /\ Len(files) > 0
    /\ ~disk[SortedFile].exists
    /\ pc = "returned"
    /\ Len(out) = 1

\* C11: getKey returns the line itself exactly when the line is shorter
\* than 32 bytes (a line of 31 bytes is its own key) and otherwise the
\* SHA-256 digest of the line in hexadecimal, 64 characters long (lines of
\* 32 and 33 bytes are hashed); and the key of every record a reader sends
\* is the key of the line it scanned.
C11_KeyIsLineOrDigest ==
    /\ \A l \in BoundaryLines :
          /\ (getKey(l) = l) <=> (Len(l) < 32)
          /\ Len(l) >= 32 => (getKey(l) = hashString(l) /\ Len(getKey(l)) = 64)
    /\ getKey(Line31) = Line31
    /\ getKey(Long32) # Long32
    /\ getKey(Line33) # Line33
    /\ \A r \in Readers : \A p \in DOMAIN sent[r] :
          LET l == SourceText(files[r])[p]
          IN  sent[r][p].lineText = (IF Len(l) < 32 THEN l ELSE hashString(l))

\* A reader has sent the keys of a line of 31, of 32 and of 33 bytes.
C11_Witness ==
    /\ pc = "returned"
    /\ \E r \in Readers :
          {sent[r][p].lineText : p \in DOMAIN sent[r]} =
              {Line31, hashString(Long32), hashString(Line33)}

\* The lines of the listed sources that can be read.
SourceLines ==
    UNION {Range(SourceText(files[r])) : r \in {q \in Readers : ~Missing(files[q])}}

\* C12 (the claim as stated): every entry of the multi-source report
\* prints the text of a line of a source, whatever the line's length.
C12_ReportPrintsLineText ==
    (~sorted /\ Len(files) > 0) => \A e \in Entries : e.line \in SourceLines

\* C12 (amended): every entry of the multi-source report prints the count,
\* the key and the per-source line-number lists the map holds for a key:
\* the key is the text of a source line shorter than 32 bytes, or the
\* digest of a source line of 32 bytes or more, and then not that text.
C12_ReportPrintsKey ==
    (~sorted /\ Len(files) > 0) =>
        \A e \in Entries :
            /\ e.line \in DOMAIN counts
            /\ e.count = counts[e.line].count
            /\ e.locs = counts[e.line].locations
            /\ DOMAIN e.locs # {}
            /\ \A S \in DOMAIN e.locs : e.locs[S] # <<>>
            /\ \E l \in SourceLines :
                  /\ getKey(l) = e.line
                  /\ (Len(l) < 32) <=> (e.line = l)
                  /\ Len(l) >= 32 => (e.line = hashString(l) /\ Len(e.line) = 64)

\* A finished report with an entry of a short line and an entry of a line
\* of 32 bytes.
C12_Witness ==
    /\ aggPc = "exit"
    /\ \E e1, e2 \in Entries :
          /\ e1.line = "x"
          /\ e2.line = hashString(Long32)
          /\ e2.count >= 2

\* C13: the k-th line a reader scans is emitted with line number k and the
\* reader's own source name: every reader counts from 1, by one per line,
\* whatever the other readers do and whatever else is listed.
C13_LineNumbersPerReader ==
    (~sorted /\ Len(files) > 0) =>
        \A r \in Readers :
            /\ \A p \in DOMAIN sent[r] :
                  /\ sent[r][p].lineNum = p
                  /\ sent[r][p].fileName = files[r]
                  /\ files[r] # "stdin" =>
                        sent[r][p].lineText = getKey(disk[files[r]].text[p])
            /\ rpc[r] = "send" =>
                  /\ cur[r].lineNum = Len(sent[r]) + 1
                  /\ cur[r].fileName = files[r]
            /\ lineNum[r] = Len(sent[r]) + (IF rpc[r] = "send" THEN 1 ELSE 0)
            /\ files[r] # "stdin" => lineNum[r] = rpos[r]

\* A reader has emitted its first line after another reader emitted its
\* second.
C13_Witness ==
    \E r1, r2 \in Readers :
        /\ r1 # r2
        /\ Len(sent[r1]) = 2
        /\ sent[r2] = <<>>
        /\ rpc[r2] = "send"
        /\ cur[r2].lineNum = 1

\* A step of the aggregator goroutine alone: the caller and the readers
\* stay where they are.
AggregatorStepOnly ==
    /\ aggPc \in {"recv", "update", "print"}
    /\ pc' = pc
    /\ rpc' = rpc
    /\ UNCHANGED <<launched, wg, linesClosed, rpos, lineNum, cur, fileOpen, sent>>

\* C14: in the multi-source path the occurrence map is the aggregator's
\* alone: a step that changes it is the aggregator's update of lines
\* 106-114 and a step that advances the range over it (lines 117-124) is
\* the aggregator's, neither moving the caller or a reader; the steps of
\* the caller and of the readers leave the map as it is.
C14_MapOwnedByAggregator ==
    [][(~sorted /\ Len(files) > 0) =>
          /\ counts' # counts =>
                (aggPc = "update" /\ aggPc' = "recv" /\ AggregatorStepOnly)
          /\ toVisit' # toVisit => AggregatorStepOnly
          /\ (pc' # pc \/ rpc' # rpc) => counts' = counts]_vars

\* The aggregator is updating a map that holds entries while the caller
\* is launching readers and a reader has a record to send.
C14_Witness ==
    /\ aggPc = "update"
    /\ counts # EmptyMap
    /\ pc = "launch"
    /\ \E r \in Readers : rpc[r] = "send"

\* DupDetectSorted has opened its file and is past the scan loop.
SortedScanned ==
    /\ sorted
    /\ Len(files) > 0
    /\ disk[SortedFile].exists
    /\ pc \in {"sortedPrint", "panic", "returned"}

\* The list DupDetectSorted's map holds for the line l.
SortedList(l) == counts[l].locations[SortedFile]

\* C15 (the claim as stated): once DupDetectSorted has read the last line
\* of its source, and before it reports, the entry of the final run holds
\* its end boundary, the number of the last line read.
C15_FinalRunFinalized ==
    (SortedScanned /\ Contiguous /\ SortedText # <<>>) =>
        LET last == SortedText[Len(SortedText)]
        IN  /\ Len(SortedList(last)) = 2
            /\ SortedList(last)[2] = Len(SortedText)

\* C16 (the claim as stated): when DupDetectSorted has just read a line
\* that differs from the line before it, the entry of the line before holds
\* that line's number as its end boundary and the entry of the line read
\* starts at the number of the line read, the line before being empty or not.
C16_RunFinalizedOnChange ==
    (sorted /\ pc = "sortedScan" /\ i >= 3
        /\ SortedText[i - 1] # SortedText[i - 2]) =>
        /\ SortedList(SortedText[i - 2])[Len(SortedList(SortedText[i - 2]))] = i - 2
        /\ Len(SortedList(SortedText[i - 2])) >= 2
        /\ SortedList(SortedText[i - 1]) = <<i - 1>>

\* C17 (the claim as stated): when DupDetectSorted reports, every entry
\* over the threshold holds a start and an end, and the report never
\* indexes a location list out of range.
C17_ReportIndexInRange ==
    /\ pc # "panic"
    /\ SortedScanned =>
          \A l \in DOMAIN counts :
              Reported(counts[l]) => Len(SortedList(l)) >= 2

\* The readers that are started and have not yet called wg.Done.
Running == {r \in Readers : rpc[r] \notin {"idle", "exit"}}

\* C18: the lines channel is closed by the caller's one close statement,
\* which it passes once, after Wait has returned; Wait returns only when
\* every reader is started and has called Done, the counter holding the
\* number of readers started and not yet done even while readers are still
\* to be started; so the channel is closed only when every reader has
\* finished and no reader is left to send on it.
C18_ClosedAfterAllDone ==
    (~sorted /\ Len(files) > 0) =>
        /\ linesClosed <=> pc \in {"recvDone", "returned"}
        /\ pc \in {"launch", "wait", "close", "recvDone", "returned"} =>
              wg = Cardinality(Running)
        /\ pc \in {"close", "recvDone", "returned"} =>
              /\ launched = Len(files)
              /\ \A r \in Readers : rpc[r] = "exit" /\ cur[r] = NoRecord
        /\ \A r \in Readers : (rpc[r] = "idle") <=> (r > launched)

\* The launch loop has a reader still to start while the readers started so
\* far have all called Done: the counter is back at zero.
C18_Witness ==
    /\ pc = "launch"
    /\ launched >= 1
    /\ launched < Len(files)
    /\ wg = 0
    /\ \E r \in Readers : rpc[r] = "exit" /\ sent[r] # <<>>

\* The readers that have returned from collectLines.
Exited == {r \in Readers : rpc[r] = "exit"}

\* C19: every reader that has returned has called wg.Done once, whatever
\* ended it (a failed open, the end of its input or a scan error): the
\* Done calls made, the readers started less the counter, number the
\* readers that have returned; the counter is never negative; and once
\* the launch loop is over it is zero exactly when every reader has
\* returned.
C19_DoneOncePerReader ==
    (~sorted /\ Len(files) > 0) =>
        /\ wg >= 0
        /\ launched - wg = Cardinality(Exited)
        /\ pc \in {"wait", "close", "recvDone", "returned"} =>
              ((wg = 0) <=> (Exited = Readers))

\* Wait is about to return from three readers: one could not open its
\* file, one stopped on a scan error, one reached the end of its input.
C19_Witness ==
    /\ pc = "wait"
    /\ wg = 0
    /\ Exited = Readers
    /\ \E r1, r2, r3 \in Readers :
          /\ Missing(files[r1])
          /\ files[r2] = "A" /\ disk["A"].err
          /\ files[r3] = "stdin"

\* C20: a reader that opened a file has closed it when it calls wg.Done,
\* however its scan ended, and holds it open only between its open and its
\* close; when DupDetectFiles returns no reader holds a file open.
C20_FileClosedBeforeDone ==
    (~sorted /\ Len(files) > 0) =>
        /\ \A r \in Readers :
              /\ rpc[r] \in {"wgDone", "exit"} => ~fileOpen[r]
              /\ fileOpen[r] <=>
                    (files[r] # "stdin" /\ rpc[r] \in {"scan", "send", "close"})
        /\ pc = "returned" => \A r \in Readers : ~fileOpen[r]

\* DupDetectFiles has returned after a reader read a file to its end, and
\* after a reader's scan of a file stopped on an error.
C20_Witness ==
    /\ ~sorted
    /\ pc = "returned"
    /\ \E r \in Readers :
          /\ files[r] = "A"
          /\ sent[r] # <<>>
          /\ disk["A"].err
          /\ ~fileOpen[r]

\* The records the map has counted, over all keys.
Counted == SumOver(DOMAIN counts, [k \in DOMAIN counts |-> counts[k].count])

\* The records the readers have handed over.
Handed == SumOver(Readers, [r \in Readers |-> Len(sent[r])])

C22_EntriesOnlyGrow ==
    [][(~sorted /\ Len(files) > 0) =>
          /\ \A k \in DOMAIN counts' : counts'[k].count >= 1
          /\ \A k \in DOMAIN counts :
                /\ k \in DOMAIN counts'
                /\ counts'[k].count >= counts[k].count
                /\ counts'[k].count <= counts[k].count + 1]_vars

\* The map holds a key counted three times and a key counted once.
C22_Witness ==
    /\ ~sorted
    /\ \E k1, k2 \in DOMAIN counts :
          counts[k1].count = 3 /\ counts[k2].count = 1

\* The records with key k and source name S the map has counted: those
\* handed over, less the one the aggregator holds and has yet to count.
CountedFrom(k, S) ==
    Cardinality({rp \in SentIndex :
                    /\ sent[rp[1]][rp[2]].lineText = k
                    /\ sent[rp[1]][rp[2]].fileName = S})
    - (IF aggPc = "update" /\ aggRec.lineText = k /\ aggRec.fileName = S
       THEN 1 ELSE 0)

\* C23: an entry holds a list for a source exactly when a record with the
\* entry's key came from that source and was counted, the list holding one
\* line number per such record: no list is empty, and a source that could
\* not be opened or that has no line with the key has no list.
C23_ListsOnlyOfSightings ==
    (~sorted /\ Len(files) > 0) =>
        \A k \in DOMAIN counts :
            /\ DOMAIN counts[k].locations \subseteq Range(files)
            /\ \A S \in FileNames :
                  /\ (S \in DOMAIN counts[k].locations) <=> (CountedFrom(k, S) > 0)
                  /\ Len(ListOf(k, S)) = CountedFrom(k, S)
                  /\ Missing(S) => S \notin DOMAIN counts[k].locations
                  /\ Positions(S, k) = {} => S \notin DOMAIN counts[k].locations

\* A finished run of three sources: one could not be opened, and of the
\* other two only one had the line of an entry.
C23_Witness ==
    /\ aggPc = "exit"
    /\ Len(files) = 3
    /\ \E r \in Readers : Missing(files[r])
    /\ \E k \in DOMAIN counts : \E S \in Range(files) :
          /\ ~Missing(S)
          /\ DOMAIN counts[k].locations = Range(files) \ {S, "M"}
          /\ DOMAIN counts[k].locations # {}

\* A reader whose scan ends on a read error.
ScanFails(r) == files[r] # "stdin" /\ disk[files[r]].err

\* C24: a reader whose scan fails after some lines stops as at the end of
\* its input and prints nothing (the only messages are those of files that
\* could not be opened); it closes its file and signals completion like
\* any other, and when the report is produced it has returned, the records
\* of the lines it read before the error are counted, and every other
\* source has been read to its end.
C24_ScanErrorIsEndOfInput ==
    (~sorted /\ Len(files) > 0) =>
        /\ \A n \in DOMAIN out :
              out[n].kind = "openError" => Missing(out[n].line)
        /\ \A r \in Readers :
              (ScanFails(r) /\ rpc[r] \in {"wgDone", "exit"}) =>
                  /\ rpos[r] = Len(disk[files[r]].text)
                  /\ Len(sent[r]) = rpos[r]
                  /\ ~fileOpen[r]
        /\ (ReportPhase /\ \E r \in Readers : ScanFails(r)) =>
              /\ wg = 0
              /\ \A r \in Readers :
                    /\ rpc[r] = "exit"
                    /\ files[r] = "stdin" => stdinPos = Len(stdin)
                    /\ (files[r] # "stdin" /\ ~Missing(files[r])) =>
                          Len(sent[r]) = Len(disk[files[r]].text)
              /\ \A k \in DOMAIN counts : counts[k].count = SentWith(k)
              /\ Mult(files, "stdin") <= 1 =>
                    \A k \in AllKeys :
                        ExpectedCount(files, k) =
                            (IF k \in DOMAIN counts THEN counts[k].count ELSE 0)

\* A finished run: the scan of "A" failed after a line that is reported,
\* and standard input was read as well.
C24_Witness ==
    /\ pc = "returned"
    /\ aggPc = "exit"
    /\ \E r1, r2 \in Readers :
          /\ ScanFails(r1)
          /\ sent[r1] # <<>>
          /\ files[r2] = "stdin"
          /\ sent[r2] # <<>>
          /\ \E e \in Entries : "A" \in DOMAIN e.locs

\* The line numbers at which the line l stands in the one source of a run
\* of KeySpec.
LinesAt(l) ==
    {p \in DOMAIN SourceText(files[1]) : SourceText(files[1])[p] = l}

\* The key the two colliding lines share.
TwinKey == getKey(TwinA)

\* C25: two distinct lines with the same key are counted in one entry.
\* When the report is produced the entry's count is the sum of the two
\* lines' occurrences and its list holds the line numbers of both, in scan
\* order; nothing but the separator and report entries is printed; and
\* the run is never stuck before DupDetectFiles returns.
C25_CollidingLinesMerge ==
    /\ TwinA # TwinB
    /\ getKey(TwinA) = getKey(TwinB)
    /\ ReportPhase =>
          /\ (TwinKey \in DOMAIN counts) <=> (LinesAt(TwinA) \cup LinesAt(TwinB) # {})
          /\ TwinKey \in DOMAIN counts =>
                /\ counts[TwinKey].count =
                      Cardinality(LinesAt(TwinA)) + Cardinality(LinesAt(TwinB))
                /\ DOMAIN counts[TwinKey].locations = {files[1]}
                /\ Range(ListOf(TwinKey, files[1])) =
                      LinesAt(TwinA) \cup LinesAt(TwinB)
                /\ StrictlyIncreasing(ListOf(TwinKey, files[1]))
    /\ \A n \in DOMAIN out : out[n].kind \in {"separator", "entry"}
    /\ pc # "returned" => ENABLED MultiNext

\* A finished run whose source held both colliding lines, reported as one
\* entry with the line numbers of both.
C25_Witness ==
    /\ pc = "returned"
    /\ aggPc = "exit"
    /\ LinesAt(TwinA) # {}
    /\ LinesAt(TwinB) # {}
    /\ \E e \in Entries :
          /\ e.line = TwinKey
          /\ e.count = 3
          /\ e.locs[files[1]] = <<1, 2, 3>>

\* The lines a source of a run of KeySpec may hold.
KeySpecLines == BoundaryLines \cup CollidingLines

\* C26: only two lines of 32 bytes or more can share a key.  The key of a
\* line shorter than 32 bytes is the line, the key of a longer one has 64
\* characters, so distinct lines with one key are both 32 bytes or longer;
\* and when the report is produced the entry of a line shorter than 32
\* bytes counts the occurrences of that line alone, at its line numbers.
C26_OnlyLongLinesMerge ==
    /\ \A l1, l2 \in KeySpecLines :
          (l1 # l2 /\ getKey(l1) = getKey(l2)) => (Len(l1) >= 32 /\ Len(l2) >= 32)
    /\ \A l \in KeySpecLines :
          IF Len(l) < 32 THEN getKey(l) = l ELSE Len(getKey(l)) = 64
    /\ ReportPhase =>
          \A l \in KeySpecLines :
              Len(l) < 32 =>
                  /\ (l \in DOMAIN counts) <=> (LinesAt(l) # {})
                  /\ l \in DOMAIN counts =>
                        /\ counts[l].count = Cardinality(LinesAt(l))
                        /\ Range(ListOf(l, files[1])) = LinesAt(l)

\* A finished run whose source held two short lines and a long one: three
\* entries.
C26_Witness ==
    /\ aggPc = "exit"
    /\ DOMAIN counts = {"x", Line31, hashString(Long32)}

\* No goroutine of the multi-source path has been started and nothing of
\* it has been touched.
NoGoroutines ==
    /\ aggPc = "idle"
    /\ aggRec = NoRecord
    /\ launched = 0
    /\ wg = 0
    /\ ~linesClosed
    /\ \A r \in Readers :
          /\ rpc[r] = "idle"
          /\ ~fileOpen[r]
          /\ sent[r] = <<>>
          /\ lineNum[r] = 0
          /\ rpos[r] = 0

\* C27: called with no file, DupDetectFiles runs DupDetect on standard
\* input whatever sorted is: no file is opened and the map holds lines of
\* standard input only.  Called with sorted and a file, it runs
\* DupDetectSorted on files[0]: no goroutine is started, standard input is
\* not read, and the only file opened, reported as failing to open or
\* counted, is files[0].
C27_DispatchFrame ==
    /\ Len(files) = 0 =>
          /\ pc \in {"entry", "dupScan", "dupPrint", "returned"}
          /\ NoGoroutines
          /\ \A n \in DOMAIN out : out[n].kind # "openError"
          /\ DOMAIN counts = {stdin[p] : p \in 1..stdinPos}
          /\ pc # "entry" => i = stdinPos + 1
    /\ (sorted /\ Len(files) > 0) =>
          /\ pc \in {"entry", "sortedOpen", "sortedScan", "sortedPrint",
                      "panic", "returned"}
          /\ NoGoroutines
          /\ stdinPos = 0
          /\ \A n \in DOMAIN out :
                out[n].kind = "openError" =>
                    (out[n].line = files[1] /\ ~disk[files[1]].exists)
          /\ i <= Len(disk[files[1]].text) + 1
          /\ DOMAIN counts = {disk[files[1]].text[p] : p \in 1..(i - 1)}

\* DupDetectSorted has reported a run of its file and returned, the call
\* having listed a second file, one that cannot be opened.
C27_Witness ==
    /\ sorted
    /\ Len(files) >= 2
    /\ files[2] = "M"
    /\ pc = "returned"
    /\ Entries # {}
    /\ out[1] = Separator("")

\* The report holds an entry for every key over the threshold.
ReportComplete ==
    {e.line : e \in Entries} = {k \in DOMAIN counts : counts[k].count > threshold}

\* C28: on the multi-source path the caller has returned exactly when the
\* aggregator has passed its send on done, which it reaches only with its
\* print loop finished and the report complete; so when DupDetectFiles
\* has returned the last entry is printed and the aggregator and every
\* reader have finished.
C28_ReturnAfterReport ==
    (~sorted /\ Len(files) > 0) =>
        /\ (pc = "returned") <=> (aggPc = "exit")
        /\ aggPc \in {"sendDone", "exit"} =>
              /\ toVisit = {}
              /\ ReportComplete
              /\ out # <<>>
        /\ pc = "returned" =>
              /\ \A r \in Readers : rpc[r] = "exit"
              /\ linesClosed
              /\ wg = 0

\* DupDetectFiles has returned from a report of two entries.
C28_Witness ==
    /\ ~sorted
    /\ pc = "returned"
    /\ Cardinality(Entries) = 2
    /\ out[Len(out)].kind = "entry"

\* DupDetectSorted has opened its file: it scans, reports or is done.
SortedRuns ==
    /\ sorted
    /\ Len(files) > 0
    /\ disk[SortedFile].exists
    /\ pc \in {"sortedScan", "sortedPrint", "panic", "returned"}

\* The lines DupDetectSorted has read so far, by number.
SortedRead == 1..(i - 1)

ShortInput == \A p \in DOMAIN stdin : Len(stdin[p]) < 32

\* The line numbers of standard input at which the line l stands, and a
\* set of numbers as the list that holds them in increasing order.
StdinAt(l) == {p \in DOMAIN stdin : stdin[p] = l}

IncSeq(S) ==
    CHOOSE s \in [1..Cardinality(S) -> S] :
        \A a, b \in 1..Cardinality(S) : a < b => s[a] < s[b]

\* What a report of standard input says: the lines, their counts and their
\* lists of line numbers, whichever path printed it (DupDetect prints the
\* list after the line, the multi-source path on a line of its own under
\* the source's name).
StdinReport ==
    {[line |-> e.line, count |-> e.count,
      list |-> IF files = <<>> THEN e.locs ELSE e.locs["stdin"]] : e \in Entries}

\* The report the input and the threshold determine.
ExpectedStdinReport ==
    {[line |-> l, count |-> Cardinality(StdinAt(l)), list |-> IncSeq(StdinAt(l))] :
        l \in {x \in Range(stdin) : Cardinality(StdinAt(x)) > threshold}}

\* C31: on an input whose lines are all shorter than 32 bytes, DupDetect
\* and the multi-source path on the single source "stdin" both report,
\* once each, exactly the lines that occur more often than the threshold,
\* with the number of their occurrences and the increasing list of their
\* line numbers: the two reports say the same.
C31_StdinPathsAgree ==
    (ShortInput /\ pc = "returned" /\ files \in {<<>>, <<"stdin">>}) =>
        /\ files # <<>> => \A e \in Entries : DOMAIN e.locs = {"stdin"}
        /\ StdinReport = ExpectedStdinReport
        /\ Cardinality(EntryIndex) = Cardinality(Entries)

\* The multi-source path has reported standard input: two short lines, one
\* of them on lines 1 and 3.
C31_Witness ==
    /\ files = <<"stdin">>
    /\ pc = "returned"
    /\ ShortInput
    /\ Cardinality(Entries) = 2
    /\ \E e \in Entries : e.locs["stdin"] = <<1, 3>>

\* ---------------------------------------------------------------------
\* ex2.go: the three ways of joining the arguments with a space.

\* The strings an argument list is drawn from: the empty string, a plain
\* word, a word holding a space and a lone space.
Words == {"", "a", "b c", " "}

\* The argument lists of at most MaxArgs strings.
ArgLists == UNION {[1..n -> Words] : n \in 0..MaxArgs}

\* strings.Join's loop: sep and elems[k..] written after what is built.
RECURSIVE JoinFrom(_, _, _, _)
JoinFrom(b, elems, k, sep) ==
    IF k > Len(elems) THEN b
    ELSE JoinFrom(b \o sep \o elems[k], elems, k + 1, sep)

\* strings.Join(elems, sep): "" for no element, the element itself for
\* one, otherwise the first element and then sep before each other one.
Join(elems, sep) ==
    CASE Len(elems) = 0 -> ""
      [] Len(elems) = 1 -> elems[1]
      [] OTHER -> JoinFrom(elems[1], elems, 2, sep)

stringJoin(list) == Join(list, " ")

\* loopConcat's loop body on the element of Go index k - 1, with a space
\* after every element as well as between them.
RECURSIVE loopConcatFrom_Trailing(_, _, _)
loopConcatFrom_Trailing(acc, list, k) ==
    IF k > Len(list) THEN acc
    ELSE loopConcatFrom_Trailing(acc \o list[k] \o " ", list, k + 1)

\* loopConcat's loop from the element of Go index k - 1 on: out += s,
\* then out += " " if i < len(strs)-1.
RECURSIVE loopConcatFrom(_, _, _)
loopConcatFrom(acc, list, k) ==
    IF k > Len(list) THEN acc
    ELSE LET withS == acc \o list[k]
             next == IF k - 1 < Len(list) - 1 THEN withS \o " " ELSE withS
         IN loopConcatFrom(next, list, k + 1)

loopConcat_Trailing(list) == loopConcatFrom_Trailing("", list, 1)

loopConcat(list) == loopConcatFrom("", list, 1)

\* fmt.Sprint of one string operand: the string, nothing added.
Sprint(s) == s

\* fmtSprint's loop over strs[1:]: result += " " + fmt.Sprint(s).
RECURSIVE fmtSprintFrom(_, _, _)
fmtSprintFrom(result, list, k) ==
    IF k > Len(list) THEN result
    ELSE fmtSprintFrom(result \o (" " \o Sprint(list[k])), list, k + 1)

fmtSprint(list) ==
    IF Len(list) = 0 THEN ""
    ELSE fmtSprintFrom(Sprint(list[1]), list, 2)

\* Ex1_2 is called on an argument list; DupDetectFiles and the server are
\* not running.
JoinInit ==
    /\ strs \in ArgLists
    /\ ex2Pc = "stringJoin"
    /\ printed = <<>>
    /\ ServerIdle
    /\ DupIdle

\* fmt.Println(stringJoin(os.Args)).
Ex1_2_stringJoin ==
    /\ ex2Pc = "stringJoin"
    /\ printed' = Append(printed, stringJoin(strs))
    /\ ex2Pc' = "loopConcat"
    /\ UNCHANGED <<strs, serverVars, dupVars>>

\* fmt.Println(loopConcat(os.Args)).
Ex1_2_loopConcat ==
    /\ ex2Pc = "loopConcat"
    /\ printed' = Append(printed, loopConcat(strs))
    /\ ex2Pc' = "fmtSprint"
    /\ UNCHANGED <<strs, serverVars, dupVars>>

\* fmt.Println(fmtSprint(os.Args)), after which Ex1_2 returns.
Ex1_2_fmtSprint ==
    /\ ex2Pc = "fmtSprint"
    /\ printed' = Append(printed, fmtSprint(strs))
    /\ ex2Pc' = "returned"
    /\ UNCHANGED <<strs, serverVars, dupVars>>

JoinNext ==
    \/ Ex1_2_stringJoin
    \/ Ex1_2_loopConcat
    \/ Ex1_2_fmtSprint

JoinSpec == JoinInit /\ [][JoinNext]_vars

\* The elements of list in order with one space between neighbours,
\* built from the back.
RECURSIVE SpaceSeparated(_)
SpaceSeparated(list) ==
    IF Len(list) = 0 THEN ""
    ELSE IF Len(list) = 1 THEN list[1]
    ELSE SpaceSeparated(SubSeq(list, 1, Len(list) - 1)) \o " " \o list[Len(list)]

\* The bytes of the elements of list, added up.
RECURSIVE TotalLen(_)
TotalLen(list) ==
    IF Len(list) = 0 THEN 0 ELSE Len(list[1]) + TotalLen(Tail(list))

\* C35: stringJoin, loopConcat and fmtSprint return the same string for
\* the argument list: its elements in order with exactly one space
\* between neighbours, so as many bytes as the elements hold plus one per
\* gap, and the empty string for the empty list; what Ex1_2 prints are
\* these results.
C35_JoinsAgree ==
    /\ stringJoin(strs) = SpaceSeparated(strs)
    /\ loopConcat(strs) = SpaceSeparated(strs)
    /\ fmtSprint(strs) = SpaceSeparated(strs)
    /\ \A r \in {stringJoin(strs), loopConcat(strs), fmtSprint(strs)} :
           Len(r) = TotalLen(strs) + (IF Len(strs) = 0 THEN 0 ELSE Len(strs) - 1)
    /\ strs = <<>> =>
           stringJoin(strs) = "" /\ loopConcat(strs) = "" /\ fmtSprint(strs) = ""
    /\ \A k \in DOMAIN printed : printed[k] = SpaceSeparated(strs)

\* Ex1_2 has printed the three joins of a three-element list.
C35_Witness ==
    /\ ex2Pc = "returned"
    /\ strs = <<"a", "", "b c">>
    /\ printed = <<"a  b c", "a  b c", "a  b c">>

\* ---------------------------------------------------------------------
\* ex4.go: NewChiRouter, its two goroutines and the request handlers.

\* The signals signal.Notify registers quit for; os.Interrupt is SIGINT.
Signals == {"SIGTERM", "SIGINT"}

\* The routes of the router.
Paths == {"/", "/counter", "/health"}

\* context.WithTimeout(context.Background(), 30 * time.Second), in seconds.
ShutdownTimeout == 30

\* httprate.LimitByIP(10, time.Minute): the requests one address may make
\* in a minute.
RateLimit == 10

\* cap(quit).
QuitCap == 1

\* server.Shutdown has been called: the listeners are closed and
\* ListenAndServe returns ErrServerClosed.
inShutdown == npc \in {"shutdown", "returned"}

\* signal.Notify has registered quit.
Notified == npc \notin {"idle", "start"}

\* The requests whose handler is running.
Active == {q \in Requests : reqPc[q] \in {"/", "/counter", "/health", "write"}}

\* NewChiRouter is called; Ex1_2 and DupDetectFiles are not running.
ServerInit ==
    /\ counter = 0
    /\ npc = "start"
    /\ sigPc = "idle"
    /\ srvPc = "idle"
    /\ quit = <<>>
    /\ delivered = 0
    /\ listenErr = FALSE
    /\ deadline = 0
    /\ expired = FALSE
    /\ reqPc = [q \in Requests |-> "idle"]
    /\ reqVal = [q \in Requests |-> 0]
    /\ reqBody = [q \in Requests |-> ""]
    /\ JoinIdle
    /\ DupIdle

\* Lines 38-62: the router and its routes, done, quit, signal.Notify.
NewChiRouter_Notify ==
    /\ npc = "start"
    /\ npc' = "goSignal"
    /\ UNCHANGED <<counter, sigPc, srvPc, quit, delivered, listenErr, deadline,
                   expired, reqPc, reqVal, reqBody, joinVars, dupVars>>

\* Line 64: the signal goroutine is started.
NewChiRouter_GoSignal ==
    /\ npc = "goSignal"
    /\ sigPc' = "recvQuit"
    /\ npc' = "goServe"
    /\ UNCHANGED <<counter, srvPc, quit, delivered, listenErr, deadline,
                   expired, reqPc, reqVal, reqBody, joinVars, dupVars>>

\* Lines 70-71: the server is built and its goroutine started; NewChiRouter
\* goes on to <-done.
NewChiRouter_GoServe ==
    /\ npc = "goServe"
    /\ srvPc' = "listen"
    /\ npc' = "waitDone"
    /\ UNCHANGED <<counter, sigPc, quit, delivered, listenErr, deadline,
                   expired, reqPc, reqVal, reqBody, joinVars, dupVars>>

\* The process is sent SIGTERM or SIGINT after Notify: the runtime sends
\* it on quit without blocking, so it is dropped when the buffer is full.
Signal(s) ==
    /\ Notified
    /\ delivered < MaxSignals
    /\ delivered' = delivered + 1
    /\ quit' = IF Len(quit) < QuitCap THEN Append(quit, s) ELSE quit
    /\ UNCHANGED <<counter, npc, sigPc, srvPc, listenErr, deadline,
                   expired, reqPc, reqVal, reqBody, joinVars, dupVars>>

\* Lines 65-66 with the send of line 67 left out: the goroutine ends
\* after its Printf.
signal_Recv_Silent ==
    /\ sigPc = "recvQuit"
    /\ quit # <<>>
    /\ quit' = Tail(quit)
    /\ sigPc' = "exit"
    /\ UNCHANGED <<counter, npc, srvPc, delivered, listenErr, deadline,
                   expired, reqPc, reqVal, reqBody, joinVars, dupVars>>

\* Lines 65-66: sig := <-quit and the Printf; the goroutine goes on to
\* done <- true.
signal_Recv ==
    /\ sigPc = "recvQuit"
    /\ quit # <<>>
    /\ quit' = Tail(quit)
    /\ sigPc' = "sendDone"
    /\ UNCHANGED <<counter, npc, srvPc, delivered, listenErr, deadline,
                   expired, reqPc, reqVal, reqBody, joinVars, dupVars>>

\* Lines 72-73: ListenAndServe is called. After Shutdown it returns
\* ErrServerClosed at once; otherwise it listens and serves, or fails on
\* its own (the port is taken).
serve_ListenAndServe ==
    /\ srvPc = "listen"
    /\ \/ inShutdown /\ srvPc' = "sendDone" /\ UNCHANGED listenErr
       \/ ~inShutdown /\ srvPc' = "serving" /\ UNCHANGED listenErr
       \/ ~inShutdown /\ srvPc' = "sendDone" /\ listenErr' = TRUE
    /\ UNCHANGED <<counter, npc, sigPc, quit, delivered, deadline,
                   expired, reqPc, reqVal, reqBody, joinVars, dupVars>>

\* Line 73: Serve's accept loop fails on its own and ListenAndServe returns
\* the error; lines 74-75 follow.
serve_AcceptFails ==
    /\ srvPc = "serving"
    /\ ~inShutdown
    /\ srvPc' = "sendDone"
    /\ listenErr' = TRUE
    /\ UNCHANGED <<counter, npc, sigPc, quit, delivered, deadline,
                   expired, reqPc, reqVal, reqBody, joinVars, dupVars>>

\* Line 73: Shutdown has closed the listeners, ListenAndServe returns
\* ErrServerClosed, which is not nil; lines 74-75 follow.
serve_Closed ==
    /\ srvPc = "serving"
    /\ inShutdown
    /\ srvPc' = "sendDone"
    /\ UNCHANGED <<counter, npc, sigPc, quit, delivered, listenErr, deadline,
                   expired, reqPc, reqVal, reqBody, joinVars, dupVars>>

\* Lines 67 and 79: the signal goroutine's done <- true meets
\* NewChiRouter's <-done; the goroutine ends.
NewChiRouter_RecvDone_FromSignal ==
    /\ npc = "waitDone"
    /\ sigPc = "sendDone"
    /\ sigPc' = "exit"
    /\ npc' = "gotDone"
    /\ UNCHANGED <<counter, srvPc, quit, delivered, listenErr, deadline,
                   expired, reqPc, reqVal, reqBody, joinVars, dupVars>>

\* Lines 75 and 79: the ListenAndServe goroutine's done <- true meets
\* NewChiRouter's <-done; the goroutine ends.
NewChiRouter_RecvDone_FromServe ==
    /\ npc = "waitDone"
    /\ srvPc = "sendDone"
    /\ srvPc' = "exit"
    /\ npc' = "gotDone"
    /\ UNCHANGED <<counter, sigPc, quit, delivered, listenErr, deadline,
                   expired, reqPc, reqVal, reqBody, joinVars, dupVars>>

\* Lines 81-85: the context with its timeout, SetKeepAlivesEnabled(false)
\* and the call of server.Shutdown, which closes the listeners.
NewChiRouter_Shutdown ==
    /\ npc = "gotDone"
    /\ deadline' = ShutdownTimeout
    /\ npc' = "shutdown"
    /\ UNCHANGED <<counter, sigPc, srvPc, quit, delivered, listenErr,
                   expired, reqPc, reqVal, reqBody, joinVars, dupVars>>

\* The timer of the context of line 81 fires.
ctx_Expire ==
    /\ npc = "shutdown"
    /\ ~expired
    /\ expired' = TRUE
    /\ UNCHANGED <<counter, npc, sigPc, srvPc, quit, delivered, listenErr,
                   deadline, reqPc, reqVal, reqBody, joinVars, dupVars>>

\* Lines 85-89: Shutdown returns, nil once no handler is running or the
\* context's error once the deadline has passed; "Server shutdown" is
\* printed and NewChiRouter returns.
NewChiRouter_Return ==
    /\ npc = "shutdown"
    /\ Active = {} \/ expired
    /\ npc' = "returned"
    /\ UNCHANGED <<counter, sigPc, srvPc, quit, delivered, listenErr, deadline,
                   expired, reqPc, reqVal, reqBody, joinVars, dupVars>>

\* A GET for path is accepted while the server serves, passes the
\* middleware (fewer than RateLimit requests have come in) and is routed
\* to the handler of path, which runs in a goroutine of its own. Requests
\* are numbered in the order they are accepted.
Request(q, path) ==
    /\ srvPc = "serving"
    /\ ~inShutdown
    /\ reqPc[q] = "idle"
    /\ q = Cardinality({p \in Requests : reqPc[p] # "idle"}) + 1
    /\ q - 1 < RateLimit
    /\ reqPc' = [reqPc EXCEPT ![q] = path]
    /\ UNCHANGED <<counter, npc, sigPc, srvPc, quit, delivered, listenErr,
                   deadline, expired, reqVal, reqBody, joinVars, dupVars>>

\* Lines 44-47: the handler of "/".
handler_Root(q) ==
    /\ reqPc[q] = "/"
    /\ reqBody' = [reqBody EXCEPT ![q] = "hello world\n"]
    /\ reqPc' = [reqPc EXCEPT ![q] = "done"]
    /\ UNCHANGED <<counter, npc, sigPc, srvPc, quit, delivered, listenErr,
                   deadline, expired, reqVal, joinVars, dupVars>>

\* Line 50 as a load and a store that other handlers may come between:
\* the value stored is one more than a value the counter held at some
\* earlier time.
handler_Add_LoadStore(q) ==
    /\ reqPc[q] = "/counter"
    /\ \E seen \in 0..counter :
           /\ counter' = seen + 1
           /\ reqVal' = [reqVal EXCEPT ![q] = seen + 1]
    /\ reqPc' = [reqPc EXCEPT ![q] = "write"]
    /\ UNCHANGED <<npc, sigPc, srvPc, quit, delivered, listenErr,
                   deadline, expired, reqBody, joinVars, dupVars>>

\* Line 50: val := counter.Add(1), one atomic step that adds 1 and
\* returns the new value.
handler_Add(q) ==
    /\ reqPc[q] = "/counter"
    /\ counter' = counter + 1
    /\ reqVal' = [reqVal EXCEPT ![q] = counter + 1]
    /\ reqPc' = [reqPc EXCEPT ![q] = "write"]
    /\ UNCHANGED <<npc, sigPc, srvPc, quit, delivered, listenErr,
                   deadline, expired, reqBody, joinVars, dupVars>>

\* fmt.Sprintf(`{"count": %d}`, val).
CountBody(val) == "{\"count\": " \o ToString(val) \o "}"

\* Lines 51-52: the handler of "/counter" writes its val.
handler_Write(q) ==
    /\ reqPc[q] = "write"
    /\ reqBody' = [reqBody EXCEPT ![q] = CountBody(reqVal[q])]
    /\ reqPc' = [reqPc EXCEPT ![q] = "done"]
    /\ UNCHANGED <<counter, npc, sigPc, srvPc, quit, delivered, listenErr,
                   deadline, expired, reqVal, joinVars, dupVars>>

\* Lines 55-58: the handler of "/health".
handler_Health(q) ==
    /\ reqPc[q] = "/health"
    /\ reqBody' = [reqBody EXCEPT ![q] = "OK\n"]
    /\ reqPc' = [reqPc EXCEPT ![q] = "done"]
    /\ UNCHANGED <<counter, npc, sigPc, srvPc, quit, delivered, listenErr,
                   deadline, expired, reqVal, joinVars, dupVars>>

\* The steps the Go scheduler and the runtime's timer take: NewChiRouter,
\* its two goroutines, the context's timer. A failure of the accept loop
\* is no such step: a server may serve forever.
Scheduled ==
    \/ NewChiRouter_Notify
    \/ NewChiRouter_GoSignal
    \/ NewChiRouter_GoServe
    \/ signal_Recv
    \/ serve_ListenAndServe
    \/ serve_Closed
    \/ NewChiRouter_RecvDone_FromSignal
    \/ NewChiRouter_RecvDone_FromServe
    \/ NewChiRouter_Shutdown
    \/ ctx_Expire
    \/ NewChiRouter_Return

ServerNext ==
    \/ NewChiRouter_Notify
    \/ NewChiRouter_GoSignal
    \/ NewChiRouter_GoServe
    \/ \E s \in Signals : Signal(s)
    \/ signal_Recv
    \/ serve_ListenAndServe
    \/ serve_AcceptFails
    \/ serve_Closed
    \/ NewChiRouter_RecvDone_FromSignal
    \/ NewChiRouter_RecvDone_FromServe
    \/ NewChiRouter_Shutdown
    \/ ctx_Expire
    \/ NewChiRouter_Return
    \/ \E q \in Requests, path \in Paths : Request(q, path)
    \/ \E q \in Requests : handler_Root(q)
    \/ \E q \in Requests : handler_Add(q)
    \/ \E q \in Requests : handler_Write(q)
    \/ \E q \in Requests : handler_Health(q)

ServerSpec == ServerInit /\ [][ServerNext]_vars

\* NewChiRouter under fair scheduling: the Go scheduler runs NewChiRouter
\* and its two goroutines whenever they can take a step and the context's
\* timer fires. Nothing is assumed of the signals, the requests or the
\* handlers.
ServerFairSpec == ServerSpec /\ WF_vars(Scheduled)

\* NewChiRouter has begun to shut the server down: it is past <-done.
ShuttingDown == npc \in {"gotDone", "shutdown", "returned"}

\* C32: once SIGTERM or SIGINT has been delivered to the running server,
\* NewChiRouter eventually returns, having called server.Shutdown with
\* the 30-second context; it is never past <-done unless a signal has
\* been delivered or ListenAndServe has failed on its own, and Shutdown
\* is never called with another deadline.
C32_SignalShutsDown ==
    /\ [](ShuttingDown => (delivered > 0 \/ listenErr))
    /\ [](deadline = (IF inShutdown THEN ShutdownTimeout ELSE 0))
    /\ [](expired => inShutdown)
    /\ (delivered > 0) ~> (npc = "returned" /\ deadline = ShutdownTimeout)

\* NewChiRouter has returned after a signal, ListenAndServe not having
\* failed: the signal goroutine's send was the one received.
C32_Witness ==
    /\ npc = "returned"
    /\ delivered > 0
    /\ ~listenErr
    /\ sigPc = "exit"
    /\ deadline = ShutdownTimeout

\* C33: every send on done is eventually received, the signal goroutine's
\* and the ListenAndServe goroutine's, so that both goroutines finish.
C33_DoneSendsReceived ==
    /\ (sigPc = "sendDone") ~> (sigPc = "exit")
    /\ (srvPc = "sendDone") ~> (srvPc = "exit")

\* What the code does instead: <-done is executed once, so at most one of
\* the two goroutines ever gets past its send.
C33_OneSendReceived == ~(sigPc = "exit" /\ srvPc = "exit")

\* After a shutdown started by a signal the ListenAndServe goroutine is
\* blocked on done with nobody left to receive.
C33_ServeBlocked ==
    /\ npc = "returned"
    /\ sigPc = "exit"
    /\ srvPc = "sendDone"
    /\ ~listenErr

\* A request has been routed to /counter and has incremented the counter.
Incremented ==
    {q \in Requests : reqPc[q] = "write" \/ (reqPc[q] = "done" /\ reqVal[q] > 0)}

\* C34: whatever the interleaving of the handlers, a request served by
\* /counter adds exactly one to the counter and gets the value after its
\* own increment, which is the value its response carries; no two
\* responses carry the same value, the counter is the number of requests
\* that have incremented it, and nothing else changes it.
C34_CounterCountsRequests ==
    /\ [](counter = Cardinality(Incremented))
    /\ [](\A p, q \in Incremented : p # q => reqVal[p] # reqVal[q])
    /\ [](\A q \in Incremented : reqVal[q] \in 1..counter)
    /\ [](\A p, q \in Requests :
              (p # q /\ reqBody[p] # "" /\ reqBody[p] = reqBody[q]) => {p, q} \cap Incremented = {})
    /\ [](\A q \in Incremented : reqPc[q] = "done" => reqBody[q] = CountBody(reqVal[q]))
    /\ [][/\ \A q \in Requests :
                 (reqPc[q] = "/counter" /\ reqPc'[q] = "write") =>
                     (counter' = counter + 1 /\ reqVal'[q] = counter')
          /\ counter' # counter =>
                 \E q \in Requests : reqPc[q] = "/counter" /\ reqPc'[q] = "write"
          /\ \A q \in Requests : reqVal[q] > 0 => reqVal'[q] = reqVal[q]]_vars

\* Two requests were in their /counter handlers at once and the one
\* accepted second got to counter.Add first.
C34_Witness ==
    /\ counter = 2
    /\ reqPc[1] = "done" /\ reqBody[1] = "{\"count\": 2}"
    /\ reqPc[2] = "done" /\ reqBody[2] = "{\"count\": 1}"

=============================================================================
